---------------------------- MODULE Spec2Model ----------------------------
(***************************************************************************)
(* A model of the Tetris repository: the board (collision, placement,     *)
(* line clear, column features), the piece catalogs, the 7-bag, the       *)
(* heuristic placement search, the AI tick and the manual frame of the    *)
(* merged program, and the tick of the AI-only program.                   *)
(*                                                                         *)
(* Sources: src/tetris_merged.cpp (merged manual + AI program),            *)
(* src/tetris.cpp (AI-only program, same Board / findBestMove / Bag),      *)
(* src/exp.cpp and src/experiment.cpp (manual-only programs).              *)
(*                                                                         *)
(* Heuristic scores are doubles in the source.  Every weight has six      *)
(* decimals, so a score is modelled exactly as a whole number of           *)
(* millionths (microMul), held as its whole units (floor) and its        *)
(* remaining millionths; the sentinel -1e9 and the threshold -1e8 are      *)
(* whole units.                                                            *)
(***************************************************************************)
EXTENDS Integers, Sequences, FiniteSets, TLC

VARIABLES
    board,      \* Board::cells / Game::board : rows top to bottom, each a tuple of
                \* BOARD_W cells 0..7; cells[r][c] of the source is Cell(cells, r, c)
    cur,        \* Game::cur : [type, x, y, rotation]
    bag,        \* Bag::bag / Game::bag : sequence of type ids, consumed from the back
    rng,        \* Game::rng of the manual-only programs: the shuffles the generator
                \* yields next, in order (<<>> where its output is an input)
    app,        \* the locals of the merged program's main: [gameState, selectedMode,
                \* selectedMenuOption, showInstructions, game (the pointer: "null" or
                \* "live"), running (the loop has not ended)]
    score,      \* Game::score
    lines,      \* Game::lines
    level,      \* Game::level
    gameOver,   \* Game::gameOver
    paused,     \* Game::paused
    mode,       \* Game::mode
    aiTimer,    \* Game::aiTimer, in hundredths of a second
    manual,     \* the manual-mode fields of Game: [gravityTimer, gravityDelay,
                \* inputTimer (milliseconds), leftHeld, rightHeld, downHeld]
    nextType,   \* nextType of the AI-only program (tetris.cpp main)
    ticks,      \* history: number of frames of the main loop run so far
    drawn,      \* history: the draws of the current block of 7 draws
    draws,      \* history: number of draws made so far
    last        \* history: the last operation applied, its arguments and its result

vars == <<board, cur, bag, rng, app, score, lines, level, gameOver, paused, mode, aiTimer,
          manual, nextType, ticks, drawn, draws, last>>

\* the variables that only the manual game and the AI-only program use
frameVars == <<manual, nextType, ticks>>

gameVars == <<cur, bag, score, lines, level, gameOver, paused, mode, aiTimer>>

-----------------------------------------------------------------------------
(* Constants of the program *)

BOARD_W == 10

BOARD_H == 20

BAG_SIZE == 7

\* INT_MIN of <climits>, dropPosition's "no valid position"
INT_MIN == -2147483647 - 1

\* heuristic weights, in millionths
W_LINES == 760666

W_HOLE == -356630

W_HEIGHT == -510066

W_BUMPY == -184483

microMul == 1000 * 1000

\* MoveDecision best{0,0,-1e9,0}: the sentinel score, in whole units
SENTINEL_UNITS == -1000000000

\* the callers' threshold, move.score < -1e8, in whole units
THRESHOLD_UNITS == -100000000

\* Game::aiCooldown = 1.08f, in hundredths of a second
AI_COOLDOWN == 108

\* gravityDelay = 0.8f, in milliseconds
GRAVITY_BASE == 800

\* the 0.05f of max(0.05f, 0.8f - (level-1)*0.05f): the floor and the step
GRAVITY_STEP == 50

\* inputDelay = 0.08f, in milliseconds
INPUT_DELAY == 80

Rows == 0 .. (BOARD_H - 1)

Cols == 0 .. (BOARD_W - 1)

Types == 0 .. (BAG_SIZE - 1)

Ix4 == 0 .. 3

-----------------------------------------------------------------------------
(* Piece catalogs *)

\* a C++ brace-initialised 4x4 matrix, rows top to bottom, as Matrix4
M4(rows) == [i \in Ix4 |-> [j \in Ix4 |-> rows[i + 1][j + 1]]]

TETROMINO_CLASSIC ==
    << <<0,0,0,0, 1,1,1,1, 0,0,0,0, 0,0,0,0>>,    \* I
       <<0,1,1,0, 0,1,1,0, 0,0,0,0, 0,0,0,0>>,    \* O
       <<0,1,0,0, 1,1,1,0, 0,0,0,0, 0,0,0,0>>,    \* T
       <<1,0,0,0, 1,1,1,0, 0,0,0,0, 0,0,0,0>>,    \* J
       <<0,0,1,0, 1,1,1,0, 0,0,0,0, 0,0,0,0>>,    \* L
       <<0,1,1,0, 1,1,0,0, 0,0,0,0, 0,0,0,0>>,    \* S
       <<1,1,0,0, 0,1,1,0, 0,0,0,0, 0,0,0,0>> >>  \* Z

rotate90(m) == [i \in Ix4 |-> [j \in Ix4 |-> m[3 - j][i]]]

\* the push_back loop of makeTetrominoes: states 0..3 by repeated rotate90
FourStates(m0) ==
    LET m1 == rotate90(m0)
        m2 == rotate90(m1)
        m3 == rotate90(m2)
    IN  <<m0, m1, m2, m3>>

\* a catalog with the lying state of the I piece alone
makeTetrominoes_LyingIOnly ==
    LET I0 == M4(<< <<0,0,0,0>>, <<1,1,1,1>>, <<0,0,0,0>>, <<0,0,0,0>> >>)
        J0 == M4(<< <<1,0,0,0>>, <<1,1,1,0>>, <<0,0,0,0>>, <<0,0,0,0>> >>)
        L0 == M4(<< <<0,0,1,0>>, <<1,1,1,0>>, <<0,0,0,0>>, <<0,0,0,0>> >>)
        O0 == M4(<< <<0,1,1,0>>, <<0,1,1,0>>, <<0,0,0,0>>, <<0,0,0,0>> >>)
        S0 == M4(<< <<0,1,1,0>>, <<1,1,0,0>>, <<0,0,0,0>>, <<0,0,0,0>> >>)
        T0m == M4(<< <<0,1,0,0>>, <<1,1,1,0>>, <<0,0,0,0>>, <<0,0,0,0>> >>)
        Z0 == M4(<< <<1,1,0,0>>, <<0,1,1,0>>, <<0,0,0,0>>, <<0,0,0,0>> >>)
    IN  << [states |-> <<I0>>,               colorId |-> 1],
           [states |-> FourStates(J0),       colorId |-> 4],
           [states |-> FourStates(L0),       colorId |-> 5],
           [states |-> <<O0>>,               colorId |-> 2],
           [states |-> <<S0, rotate90(S0)>>, colorId |-> 6],
           [states |-> FourStates(T0m),      colorId |-> 3],
           [states |-> <<Z0, rotate90(Z0)>>, colorId |-> 7] >>

\* the catalog of the AI engine, indexed by type id + 1; states indexed by
\* rotation index + 1
makeTetrominoes ==
    LET I0 == M4(<< <<0,0,0,0>>, <<1,1,1,1>>, <<0,0,0,0>>, <<0,0,0,0>> >>)
        J0 == M4(<< <<1,0,0,0>>, <<1,1,1,0>>, <<0,0,0,0>>, <<0,0,0,0>> >>)
        L0 == M4(<< <<0,0,1,0>>, <<1,1,1,0>>, <<0,0,0,0>>, <<0,0,0,0>> >>)
        O0 == M4(<< <<0,1,1,0>>, <<0,1,1,0>>, <<0,0,0,0>>, <<0,0,0,0>> >>)
        S0 == M4(<< <<0,1,1,0>>, <<1,1,0,0>>, <<0,0,0,0>>, <<0,0,0,0>> >>)
        T0m == M4(<< <<0,1,0,0>>, <<1,1,1,0>>, <<0,0,0,0>>, <<0,0,0,0>> >>)
        Z0 == M4(<< <<1,1,0,0>>, <<0,1,1,0>>, <<0,0,0,0>>, <<0,0,0,0>> >>)
    IN  << [states |-> <<I0, rotate90(I0)>>, colorId |-> 1],
           [states |-> FourStates(J0),       colorId |-> 4],
           [states |-> FourStates(L0),       colorId |-> 5],
           [states |-> <<O0>>,               colorId |-> 2],
           [states |-> <<S0, rotate90(S0)>>, colorId |-> 6],
           [states |-> FourStates(T0m),      colorId |-> 3],
           [states |-> <<Z0, rotate90(Z0)>>, colorId |-> 7] >>

\* Game::tetrominoes, built once by the constructor
tetrominoes == makeTetrominoes

\* piece.states.size()
NumStates(type) == Len(tetrominoes[type + 1].states)

\* tetrominoes[type].states[rIdx]
StateOf(type, rIdx) == tetrominoes[type + 1].states[rIdx + 1]

\* an index transform whose quarter-turns go the other way round
pieceIdx_TurnsLeft(rotation, i, j) ==
    CASE rotation % 4 = 0 -> i * 4 + j
      [] rotation % 4 = 1 -> j * 4 + (3 - i)
      [] rotation % 4 = 2 -> (3 - i) * 4 + (3 - j)
      [] rotation % 4 = 3 -> (3 - j) * 4 + i

\* the switch of Game::pieceCell: the index into the flat base mask of cell
\* (i, j) of the mask at this rotation
pieceIdx(rotation, i, j) ==
    CASE rotation % 4 = 0 -> i * 4 + j
      [] rotation % 4 = 1 -> (3 - j) * 4 + i
      [] rotation % 4 = 2 -> (3 - i) * 4 + (3 - j)
      [] rotation % 4 = 3 -> j * 4 + (3 - i)

\* Game::pieceCell: the classic base mask read through the index transform
pieceCell(type, rotation, i, j) ==
    TETROMINO_CLASSIC[type + 1][pieceIdx(rotation, i, j) + 1]

-----------------------------------------------------------------------------
(* Board *)

EmptyRow == [c \in 1 .. BOARD_W |-> 0]

\* Board::Board(): every row filled with 0
EmptyBoard == [r \in 1 .. BOARD_H |-> EmptyRow]

\* cells[r][c], rows and columns counted from 0
Cell(cells, r, c) == cells[r + 1][c + 1]

\* a collision test that does not look at row 0 of the board
collides_SkipsRow0(cells, shape, topR, leftC) ==
    \E i \in Ix4 : \E j \in Ix4 :
        /\ shape[i][j] # 0
        /\ LET r == topR + i
               c == leftC + j
           IN  \/ (c < 0 \/ c >= BOARD_W \/ r >= BOARD_H)
               \/ (r > 0 /\ Cell(cells, r, c) # 0)

\* Board::collides.  The loops return at the first colliding cell; cells[r][c]
\* is read only for a column inside the board and a row in 0..BOARD_H-1.
collides(cells, shape, topR, leftC) ==
    \E i \in Ix4 : \E j \in Ix4 :
        /\ shape[i][j] # 0
        /\ LET r == topR + i
               c == leftC + j
           IN  \/ (c < 0 \/ c >= BOARD_W \/ r >= BOARD_H)
               \/ (r >= 0 /\ Cell(cells, r, c) # 0)

\* Game::collidesPiece of the merged program
collidesPiece(cells, px, py, type, rotation) ==
    \E i \in Ix4 : \E j \in Ix4 :
        /\ pieceCell(type, rotation, i, j) # 0
        /\ LET bx == px + j
               by == py + i
           IN  \/ (bx < 0 \/ bx >= BOARD_W \/ by >= BOARD_H)
               \/ (by >= 0 /\ Cell(cells, by, bx) # 0)

\* Game::collides of the manual-only programs (exp.cpp, experiment.cpp)
Game_collides(cells, px, py, type, rotation) ==
    \E i \in Ix4 : \E j \in Ix4 :
        /\ pieceCell(type, rotation, i, j) # 0
        /\ LET bx == px + j
               by == py + i
           IN  \/ (bx < 0 \/ bx >= BOARD_W \/ by < 0 \/ by >= BOARD_H)
               \/ Cell(cells, by, bx) # 0

\* a placement that writes the column of the mask cell's row index
RECURSIVE placeLoop_Transposed(_, _, _, _, _, _)
placeLoop_Transposed(cells, shape, topR, leftC, colorId, k) ==
    IF k > 15 THEN cells
    ELSE LET i == k \div 4
             j == k % 4
             r == topR + i
             c == leftC + j
         IN  IF shape[j][i] # 0 /\ r >= 0 /\ r < BOARD_H /\ c >= 0 /\ c < BOARD_W
             THEN placeLoop_Transposed([cells EXCEPT ![r + 1][c + 1] = colorId],
                                       shape, topR, leftC, colorId, k + 1)
             ELSE placeLoop_Transposed(cells, shape, topR, leftC, colorId, k + 1)

\* Board::placePiece: the two loops, cell k = 4*i + j, writing in place
RECURSIVE placeLoop(_, _, _, _, _, _)
placeLoop(cells, shape, topR, leftC, colorId, k) ==
    IF k > 15 THEN cells
    ELSE LET i == k \div 4
             j == k % 4
             r == topR + i
             c == leftC + j
         IN  IF shape[i][j] # 0 /\ r >= 0 /\ r < BOARD_H /\ c >= 0 /\ c < BOARD_W
             THEN placeLoop([cells EXCEPT ![r + 1][c + 1] = colorId],
                            shape, topR, leftC, colorId, k + 1)
             ELSE placeLoop(cells, shape, topR, leftC, colorId, k + 1)

placePiece(cells, shape, topR, leftC, colorId) ==
    placeLoop(cells, shape, topR, leftC, colorId, 0)

\* the inner loop of clearLines: is row r completely filled
RowFull(cells, r) == \A c \in Cols : Cell(cells, r, c) # 0

\* for (rr = r; rr > 0; --rr) cells[rr] = cells[rr-1]; cells[0].fill(0)
ShiftDown(cells, r) ==
    [k \in 1 .. BOARD_H |->
        LET rr == k - 1
        IN  IF rr = 0 THEN EmptyRow
            ELSE IF rr <= r THEN cells[(rr - 1) + 1]
            ELSE cells[rr + 1]]

\* a line clear that moves on to the row above after a clear (no r++)
RECURSIVE clearLoop_NoRecheck(_, _, _)
clearLoop_NoRecheck(cells, r, cleared) ==
    IF r < 0 THEN [cells |-> cells, cleared |-> cleared]
    ELSE IF RowFull(cells, r)
         THEN clearLoop_NoRecheck(ShiftDown(cells, r), r - 1, cleared + 1)
         ELSE clearLoop_NoRecheck(cells, r - 1, cleared)

\* Board::clearLines: rows from the bottom up; after a clear the same row
\* index is examined again (r++ followed by the loop's --r)
RECURSIVE clearLoop(_, _, _)
clearLoop(cells, r, cleared) ==
    IF r < 0 THEN [cells |-> cells, cleared |-> cleared]
    ELSE IF RowFull(cells, r)
         THEN clearLoop(ShiftDown(cells, r), (r + 1) - 1, cleared + 1)
         ELSE clearLoop(cells, r - 1, cleared)

\* a clearLines that counts the full rows and leaves them on the board
clearLines_KeepsRows(cells) ==
    [cells |-> cells, cleared |-> clearLoop(cells, BOARD_H - 1, 0).cleared]

clearLines(cells) == clearLoop(cells, BOARD_H - 1, 0)

\* a drop loop that looks two rows ahead and stops one row early
RECURSIVE dropLoop_StopsEarly(_, _, _, _)
dropLoop_StopsEarly(cells, shape, leftC, topR) ==
    IF ~collides(cells, shape, topR + 2, leftC)
    THEN dropLoop_StopsEarly(cells, shape, leftC, topR + 1)
    ELSE topR

\* while (!collides(shape, topR + 1, leftC)) topR++;
RECURSIVE dropLoop(_, _, _, _)
dropLoop(cells, shape, leftC, topR) ==
    IF ~collides(cells, shape, topR + 1, leftC)
    THEN dropLoop(cells, shape, leftC, topR + 1)
    ELSE topR

\* a dropPosition that reports INT_MIN when the shape comes to rest with an
\* occupied cell above row 0
dropPosition_NoneWhenAbove(cells, shape, leftC) ==
    LET topR == dropLoop(cells, shape, leftC, -4)
    IN  IF collides(cells, shape, topR, leftC)
           \/ \E i \in Ix4 : \E j \in Ix4 : shape[i][j] # 0 /\ topR + i < 0
        THEN INT_MIN ELSE topR

\* Board::dropPosition
dropPosition(cells, shape, leftC) ==
    LET topR == dropLoop(cells, shape, leftC, -4)
    IN  IF collides(cells, shape, topR, leftC) THEN INT_MIN ELSE topR


\* Board::columnHeight: the first occupied row from the top
RECURSIVE heightLoop(_, _, _)
heightLoop(cells, c, r) ==
    IF r >= BOARD_H THEN 0
    ELSE IF Cell(cells, r, c) # 0 THEN BOARD_H - r
    ELSE heightLoop(cells, c, r + 1)

columnHeight(cells, c) == heightLoop(cells, c, 0)

\* abs of <cstdlib>
abs(x) == IF x < 0 THEN -x ELSE x

\* Board::aggregateHeight: the sum of the heights of columns 0 .. c
RECURSIVE aggLoop(_, _)
aggLoop(cells, c) ==
    IF c < 0 THEN 0
    ELSE aggLoop(cells, c - 1) + columnHeight(cells, c)

aggregateHeight(cells) == aggLoop(cells, BOARD_W - 1)

\* Board::bumpiness: the sum over the columns 0 .. c of |height(c) - height(c+1)|
RECURSIVE bumpLoop(_, _)
bumpLoop(cells, c) ==
    IF c < 0 THEN 0
    ELSE bumpLoop(cells, c - 1)
         + abs(columnHeight(cells, c) - columnHeight(cells, c + 1))

bumpiness(cells) == bumpLoop(cells, BOARD_W - 2)

\* a count of the empty cells that lie directly under a block only
holesCol_DirectlyUnder(cells, c, r, blockFound) ==
    Cardinality({q \in r .. (BOARD_H - 1) :
                    /\ Cell(cells, q, c) = 0
                    /\ q > 0
                    /\ Cell(cells, q - 1, c) # 0})

\* Board::holes: the inner loop's count for the rows r .. BOARD_H-1 of column
\* c, blockFound telling whether a block was seen above row r
RECURSIVE holesCol(_, _, _, _)
holesCol(cells, c, r, blockFound) ==
    IF r >= BOARD_H THEN 0
    ELSE IF Cell(cells, r, c) # 0 THEN holesCol(cells, c, r + 1, TRUE)
    ELSE IF blockFound THEN 1 + holesCol(cells, c, r + 1, blockFound)
    ELSE holesCol(cells, c, r + 1, blockFound)

\* the outer loop: the holes of columns 0 .. c
RECURSIVE holesLoop(_, _)
holesLoop(cells, c) ==
    IF c < 0 THEN 0
    ELSE holesLoop(cells, c - 1) + holesCol(cells, c, 0, FALSE)

holes(cells) == holesLoop(cells, BOARD_W - 1)

-----------------------------------------------------------------------------
(* Placement engine *)

\* a double with six decimals, as whole units (floor) and millionths
ScoreOf(micro) == [u |-> micro \div microMul, f |-> micro % microMul]

\* a > b on scores
ScoreGT(a, b) == a.u > b.u \/ (a.u = b.u /\ a.f > b.f)

\* MoveDecision best{0,0,-1e9,0}
SentinelMove ==
    [rotationIndex |-> 0, leftC |-> 0, score |-> [u |-> SENTINEL_UNITS, f |-> 0],
     lines |-> 0]

\* move.score < -1e8
BelowThreshold(s) == s.u < THRESHOLD_UNITS

\* score += W_LINES * lines; ... += W_BUMPY * b2.bumpiness(), in millionths
Heuristic(b2) ==
    W_LINES * b2.cleared + W_HOLE * holes(b2.cells)
    + W_HEIGHT * aggregateHeight(b2.cells) + W_BUMPY * bumpiness(b2.cells)

\* the body of findBestMove's inner loop for a placeable candidate: clone,
\* place, clear (b2), then score
Candidate(cells, type, rIdx, left, top) ==
    CHOOSE cand \in
        {[rotationIndex |-> rIdx, leftC |-> left, score |-> ScoreOf(Heuristic(b2)),
          lines |-> b2.cleared] :
            b2 \in {clearLines(placePiece(cells, StateOf(type, rIdx), top, left,
                                          tetrominoes[type + 1].colorId))}} : TRUE

\* a comparison that also replaces best on an equal score
Better_OrEqual(cand, best) == ~ScoreGT(best.score, cand.score)

\* a comparison that keeps the lower score
Better_Reversed(cand, best) == ScoreGT(best.score, cand.score)

\* if (score > best.score) best = {rIdx, left, score, lines};
Better(cand, best) == ScoreGT(cand.score, best.score)

\* the inner loop of findBestMove, left from -4 to BOARD_W: the value of best
\* once the iteration (rIdx, left) has run, best0 being its value when the
\* iterations of rIdx began
RECURSIVE offsetLoop(_, _, _, _, _)
offsetLoop(cells, type, rIdx, left, best0) ==
    IF left < -4 THEN best0
    ELSE LET best == offsetLoop(cells, type, rIdx, left - 1, best0)
             top == dropPosition(cells, StateOf(type, rIdx), left)
         IN  IF top = INT_MIN THEN best
             ELSE LET cand == Candidate(cells, type, rIdx, left, top)
                  IN  IF Better(cand, best) THEN cand ELSE best

\* the outer loop, rIdx from 0 to piece.states.size() - 1: the value of best
\* once the iterations of rIdx have run (best0 is bound to a value before the
\* inner loop is entered)
RECURSIVE searchLoop(_, _, _)
searchLoop(cells, type, rIdx) ==
    IF rIdx < 0 THEN SentinelMove
    ELSE CHOOSE b \in {offsetLoop(cells, type, rIdx, BOARD_W, best0) :
                          best0 \in {searchLoop(cells, type, rIdx - 1)}} : TRUE

findBestMove(cells, pieceType) ==
    searchLoop(cells, pieceType, NumStates(pieceType) - 1)

-----------------------------------------------------------------------------
(* Bag randomizer *)

\* the number of steps of a shuffle, counted from its last, at which the
\* generator's pick is free in the games: the first MaxRand draws of a bag come
\* in every order (the bag alone is run with every pick free)
MaxRand == 2

\* the number of draws the bag alone is run for
MaxDraws == 15

\* iter_swap(a + i, a + k), on positions 1..Len(s)
Swap(s, i, k) == [s EXCEPT ![i] = s[k], ![k] = s[i]]

\* std::shuffle(bag.begin(), bag.end(), rng): position i = 2..n in turn is
\* swapped with a position k <= i that the generator picks; the generator's
\* output is an input of the model: any k at the last free steps, k = i
\* before them (free = n - 1: every pick, hence every permutation)
RECURSIVE shuffleLoop(_, _, _)
shuffleLoop(ss, i, free) ==
    IF i > BAG_SIZE THEN ss
    ELSE shuffleLoop({Swap(s, i, k) :
                         s \in ss,
                         k \in IF i > BAG_SIZE - free THEN 1 .. i ELSE {i}},
                     i + 1, free)

\* Bag::refill / Game::refillBag: clear, push 0..6, shuffle; the bags it can
\* leave
refill(free) == shuffleLoop({[i \in 1 .. BAG_SIZE |-> i - 1]}, 2, free)

\* the refills with every pick free: all permutations of 0..6
AllShuffles == refill(BAG_SIZE - 1)

\* the refills of the games
GameShuffles == refill(MaxRand)

\* the refills of the games picked up later: the last swap of the shuffle is
\* free, so the first draw of a bag is any type
PickedShuffles == refill(1)

\* a bag that refills one draw early, on the last element
Bag_next_EarlyRefill(b, shuffles) ==
    LET full == IF Len(b) <= 1 THEN shuffles ELSE {b}
    IN  {[t |-> f[Len(f)], bag |-> SubSeq(f, 1, Len(f) - 1)] : f \in full}

\* Bag::next / Game::nextFromBag: refill when empty, then pop the back.  The
\* outcomes [t, bag] over the refills the generator can produce.
Bag_next(b, shuffles) ==
    LET full == IF b = <<>> THEN shuffles ELSE {b}
    IN  {[t |-> f[Len(f)], bag |-> SubSeq(f, 1, Len(f) - 1)] : f \in full}

\* history of the draws: one more draw of type t in the current block of
\* BAG_SIZE draws (blocks are counted by draws, not by refills)
NoDraws == [t \in Types |-> 0]

Count(d) == d[0] + d[1] + d[2] + d[3] + d[4] + d[5] + d[6]

NoteDraw(d, t) ==
    IF Count(d) = BAG_SIZE THEN [NoDraws EXCEPT ![t] = 1]
    ELSE [d EXCEPT ![t] = d[t] + 1]

-----------------------------------------------------------------------------
(* The values the variables of a game have when only a part is exercised *)

NoPiece == [type |-> 0, x |-> 0, y |-> 0, rotation |-> 0]

NoCall == [op |-> "none"]

\* main's locals where main is not exercised
NoApp ==
    [gameState |-> "NONE", selectedMode |-> "MANUAL", selectedMenuOption |-> 0,
     showInstructions |-> FALSE, game |-> "null", running |-> TRUE]

\* main's locals while a game of this mode is played: the menu was left at
\* option 0
Playing(m) ==
    [gameState |-> "PLAYING", selectedMode |-> m, selectedMenuOption |-> 0,
     showInstructions |-> FALSE, game |-> "live", running |-> TRUE]

\* if(gameState == PLAYING && game), in a loop that has not ended
InPlay == app.running /\ app.gameState = "PLAYING" /\ app.game = "live"

\* gravityTimer = 0, gravityDelay = 0.8f, inputDelay = 0.08f, inputTimer = 0,
\* leftHeld = rightHeld = downHeld = false
NewManual ==
    [gravityTimer |-> 0, gravityDelay |-> GRAVITY_BASE, inputTimer |-> 0,
     leftHeld |-> FALSE, rightHeld |-> FALSE, downHeld |-> FALSE]

IdleGame ==
    /\ cur = NoPiece
    /\ score = 0
    /\ lines = 0
    /\ level = 1
    /\ gameOver = FALSE
    /\ paused = FALSE
    /\ mode = "NONE"
    /\ aiTimer = 0
    /\ manual = NewManual
    /\ nextType = 0
    /\ ticks = 0
    /\ rng = <<>>
    /\ app = NoApp

-----------------------------------------------------------------------------
(* The bag alone: Bag() then next() again and again *)

\* Bag::Bag(): seed, refill
InitBag ==
    /\ bag \in AllShuffles
    /\ drawn = NoDraws
    /\ draws = 0
    /\ board = EmptyBoard
    /\ last = NoCall
    /\ IdleGame

\* one call of Bag::next
BagNext ==
    /\ draws < MaxDraws
    /\ \E n \in Bag_next(bag, AllShuffles) :
          /\ bag' = n.bag
          /\ drawn' = NoteDraw(drawn, n.t)
          /\ last' = [op |-> "next", ret |-> n.t, refilled |-> (bag = <<>>)]
    /\ draws' = draws + 1
    /\ UNCHANGED <<board, cur, score, lines, level, gameOver, paused, mode, aiTimer>>
    /\ UNCHANGED <<frameVars, rng, app>>

NextBag == BagNext

SpecBag == InitBag /\ [][NextBag]_vars

-----------------------------------------------------------------------------
(* Boards the Board operations and the placement search are applied to *)

\* well boards: rows filled from the bottom up to this height, and from this
\* far below the top up to the top
MaxLow == 1

MaxGap == 2

\* capped boards: a well of at most this depth at the top of the last column
MaxWell == 5

\* stacks of at most this many patterned rows
MaxStack == 3

\* a row with the columns of filled set to color
RowOf(filled, color) == [k \in 1 .. BOARD_W |-> IF (k - 1) \in filled THEN color ELSE 0]

\* every column but column w filled in the bottom k rows
WellBoard(k, w) ==
    [i \in 1 .. BOARD_H |->
        IF i - 1 >= BOARD_H - k THEN RowOf(Cols \ {w}, 1) ELSE EmptyRow]

\* the number of occupied cells of a board
CellCount(cells) == Cardinality({p \in Rows \X Cols : Cell(cells, p[1], p[2]) # 0})

\* a game's board holds four cells for every piece locked less ten for every
\* line cleared: a board of k filled rows with a gap, with one more cell on
\* top of column BOARD_W - 1 when the count would be odd
GameWell(k, w) ==
    IF CellCount(WellBoard(k, w)) % 2 = 0 THEN WellBoard(k, w)
    ELSE [WellBoard(k, w) EXCEPT ![BOARD_H - k][BOARD_W] = 1]

\* the fewest lines a game has cleared when its board holds an even number of
\* cells: 0 if half the count is even, else 1
OwedLines(cells) == (CellCount(cells) \div 2) % 2

WellHeights == (0 .. MaxLow) \cup ((BOARD_H - MaxGap) .. BOARD_H)

WellBoards == {WellBoard(k, w) : k \in WellHeights, w \in {0, BOARD_W - 1}}

\* a stack reaching the top everywhere but for a well of depth d at the top of
\* the last column and the top cell of column 0; column 5 is hollow under its
\* top cell, so that no row below the top one is full
CapBoard(d) ==
    [i \in 1 .. BOARD_H |->
        [k \in 1 .. BOARD_W |->
            LET r == i - 1
                c == k - 1
            IN  IF c = 0 THEN (IF r = 0 THEN 0 ELSE 2)
                ELSE IF c = 5 THEN (IF r = 0 THEN 2 ELSE 0)
                ELSE IF c = BOARD_W - 1 THEN (IF r < d THEN 0 ELSE 2)
                ELSE 2]]

CapBoards == {CapBoard(d) : d \in 0 .. MaxWell}

\* row patterns of the stacks: full, a gap at the left, a gap at the right,
\* empty; each with its own color
RowPattern(p) ==
    CASE p = 1 -> RowOf(Cols, 1)
      [] p = 2 -> RowOf(Cols \ {0}, 2)
      [] p = 3 -> RowOf(Cols \ {BOARD_W - 1}, 3)
      [] OTHER -> EmptyRow

\* all sequences of patterns of length n
RECURSIVE PatternSeqs(_)
PatternSeqs(n) ==
    IF n = 0 THEN {<<>>}
    ELSE {Append(q, p) : q \in PatternSeqs(n - 1), p \in 1 .. 4}

\* the rows of q stacked on the floor (q[1] lowest), or hanging from the top
\* (q[1] highest)
StackBoard(q, atTop) ==
    [i \in 1 .. BOARD_H |->
        LET k == IF atTop THEN i ELSE BOARD_H - (i - 1)
        IN  IF k <= Len(q) THEN RowPattern(q[k]) ELSE EmptyRow]

StackBoards ==
    {StackBoard(q, atTop) : q \in UNION {PatternSeqs(n) : n \in 0 .. MaxStack},
                            atTop \in BOOLEAN}

\* the positions tried: the search's range of columns, and every row from
\* dropPosition's start to the floor
TopRows == -4 .. BOARD_H

LeftCols == -4 .. BOARD_W

\* the shapes of the catalog: [type, rIdx]
CatalogShapes == {[type |-> t, rIdx |-> r] : t \in Types, r \in Ix4} \cap
                 {sh \in [type : Types, rIdx : Ix4] : sh.rIdx < NumStates(sh.type)}

-----------------------------------------------------------------------------
(* The Board alone: a board, then any one of its operations *)

InitBoard ==
    /\ board \in WellBoards
    /\ bag = <<>>
    /\ drawn = NoDraws
    /\ draws = 0
    /\ last = NoCall
    /\ IdleGame

Untouched == UNCHANGED <<cur, bag, rng, app, score, lines, level, gameOver, paused, mode,
                         aiTimer, drawn, draws, manual, nextType, ticks>>

\* board.collides(shape, topR, leftC)
Collides ==
    /\ last = NoCall
    /\ \E sh \in CatalogShapes, topR \in TopRows, leftC \in LeftCols :
          last' = [op |-> "collides", type |-> sh.type, rIdx |-> sh.rIdx,
                   topR |-> topR, leftC |-> leftC,
                   ret |-> collides(board, StateOf(sh.type, sh.rIdx), topR, leftC)]
    /\ UNCHANGED board
    /\ Untouched

\* game.collidesPiece(px, py, type, rotation) of the merged program
CollidesPiece ==
    /\ last = NoCall
    /\ \E type \in Types, rotation \in Ix4, py \in TopRows, px \in LeftCols :
          last' = [op |-> "collidesPiece", type |-> type, rotation |-> rotation,
                   px |-> px, py |-> py,
                   ret |-> collidesPiece(board, px, py, type, rotation)]
    /\ UNCHANGED board
    /\ Untouched

\* game.collides(px, py, type, rotation) of the manual-only programs
GameCollides ==
    /\ last = NoCall
    /\ \E type \in Types, rotation \in Ix4, py \in TopRows, px \in LeftCols :
          last' = [op |-> "Game::collides", type |-> type, rotation |-> rotation,
                   px |-> px, py |-> py,
                   ret |-> Game_collides(board, px, py, type, rotation)]
    /\ UNCHANGED board
    /\ Untouched

\* board.placePiece(shape, topR, leftC, colorId)
PlacePiece ==
    /\ last = NoCall
    /\ \E sh \in CatalogShapes, topR \in TopRows, leftC \in LeftCols :
          /\ board' = placePiece(board, StateOf(sh.type, sh.rIdx), topR, leftC,
                                 tetrominoes[sh.type + 1].colorId)
          /\ last' = [op |-> "placePiece", type |-> sh.type, rIdx |-> sh.rIdx,
                      topR |-> topR, leftC |-> leftC,
                      colorId |-> tetrominoes[sh.type + 1].colorId, pre |-> board]
    /\ Untouched

\* board.dropPosition(shape, leftC)
DropPosition ==
    /\ last = NoCall
    /\ \E sh \in CatalogShapes, leftC \in LeftCols :
          last' = [op |-> "dropPosition", type |-> sh.type, rIdx |-> sh.rIdx,
                   leftC |-> leftC,
                   ret |-> dropPosition(board, StateOf(sh.type, sh.rIdx), leftC)]
    /\ UNCHANGED board
    /\ Untouched

NextBoard == Collides \/ CollidesPiece \/ GameCollides \/ PlacePiece \/ DropPosition

SpecBoard == InitBoard /\ [][NextBoard]_vars

-----------------------------------------------------------------------------
(* Line clear alone: a stack of rows, then clearLines *)

InitLines ==
    /\ board \in StackBoards
    /\ bag = <<>>
    /\ drawn = NoDraws
    /\ draws = 0
    /\ last = NoCall
    /\ IdleGame

\* board.clearLines()
ClearLines ==
    /\ last = NoCall
    /\ LET res == clearLines(board)
       IN  /\ board' = res.cells
           /\ last' = [op |-> "clearLines", ret |-> res.cleared, pre |-> board]
    /\ Untouched

NextLines == ClearLines

SpecLines == InitLines /\ [][NextLines]_vars

-----------------------------------------------------------------------------
(* The placement search alone: a board and a piece type, then findBestMove *)

InitSearch ==
    /\ board \in WellBoards \cup CapBoards
    /\ bag = <<>>
    /\ drawn = NoDraws
    /\ draws = 0
    /\ last = NoCall
    /\ IdleGame

\* findBestMove(board, tetrominoes, pieceType)
FindBestMove ==
    /\ last = NoCall
    /\ \E type \in Types :
          last' = [op |-> "findBestMove", type |-> type,
                   ret |-> findBestMove(board, type)]
    /\ UNCHANGED board
    /\ Untouched

NextSearch == FindBestMove

SpecSearch == InitSearch /\ [][NextSearch]_vars

-----------------------------------------------------------------------------
(* The merged program's game in AI mode: Game(AI), then updateAI each frame *)

\* the number of pieces an AI game is run for
MaxSpawns == 4

\* GetFrameTime(), in hundredths of a second: half the cooldown, or all of it
FrameTimes == {AI_COOLDOWN \div 2, AI_COOLDOWN}

\* a spawn that tests the row under the spawn row
spawnPiece_ChecksRowBelow(cells, b, shuffles) ==
    {[cur |-> [type |-> n.t, x |-> (BOARD_W \div 2) - 2, y |-> 0, rotation |-> 0],
      bag |-> n.bag,
      collided |-> collidesPiece(cells, (BOARD_W \div 2) - 2, 1, n.t, 0)] :
        n \in Bag_next(b, shuffles)}

\* a spawn one row above the grid
spawnPiece_AboveGrid(cells, b, shuffles) ==
    {[cur |-> [type |-> n.t, x |-> (BOARD_W \div 2) - 2, y |-> -1, rotation |-> 0],
      bag |-> n.bag,
      collided |-> collidesPiece(cells, (BOARD_W \div 2) - 2, -1, n.t, 0)] :
        n \in Bag_next(b, shuffles)}

\* Game::spawnPiece: the outcomes [cur, bag, collided] over the refills the
\* generator can produce
spawnPiece(cells, b, shuffles) ==
    {[cur |-> [type |-> n.t, x |-> (BOARD_W \div 2) - 2, y |-> 0, rotation |-> 0],
      bag |-> n.bag,
      collided |-> collidesPiece(cells, (BOARD_W \div 2) - 2, 0, n.t, 0)] :
        n \in Bag_next(b, shuffles)}

\* a shift that grows by one
Shl1_Linear(n) == n + 1

\* 1 << n
Shl1(n) == 2 ^ n

\* Game::Game(AI): the bag is filled by Bag(), the catalog built, a piece spawned
InitAI ==
    /\ board = EmptyBoard
    /\ score = 0
    /\ lines = 0
    /\ level = 1
    /\ paused = FALSE
    /\ mode = "AI"
    /\ aiTimer = 0
    /\ manual = NewManual
    /\ nextType = 0
    /\ ticks = 0
    /\ rng = <<>>
    /\ app = Playing("AI")
    /\ \E b0 \in GameShuffles : \E sp \in spawnPiece(EmptyBoard, b0, GameShuffles) :
          /\ cur = sp.cur
          /\ bag = sp.bag
          /\ gameOver = sp.collided
          /\ drawn = NoteDraw(NoDraws, sp.cur.type)
    /\ draws = 1
    /\ last = NoCall

\* the else branch of updateAI once top is known to be a row: place, clear,
\* score, spawn
AIPlace(move, top, note) ==
    \E res \in {clearLines(placePiece(board, StateOf(cur.type, move.rotationIndex),
                                      top, move.leftC,
                                      tetrominoes[cur.type + 1].colorId))} :
        /\ board' = res.cells
        /\ lines' = lines + res.cleared
        /\ score' = IF res.cleared > 0 THEN score + 100 * Shl1(res.cleared - 1)
                    ELSE score
        /\ level' = IF res.cleared > 0 THEN 1 + (lines + res.cleared) \div 10
                    ELSE level
        /\ \E sp \in spawnPiece(res.cells, bag, GameShuffles) :
              /\ cur' = sp.cur
              /\ bag' = sp.bag
              /\ gameOver' = (gameOver \/ sp.collided)
              /\ drawn' = NoteDraw(drawn, sp.cur.type)
        /\ draws' = draws + 1
        /\ last' = note @@ [did |-> "placed", cleared |-> res.cleared]

\* the body of updateAI once the cooldown has elapsed
AIMove ==
    \E move \in {findBestMove(board, cur.type)} :
    \E top \in {dropPosition(board, StateOf(cur.type, move.rotationIndex), move.leftC)} :
    \E note \in {[op |-> "updateAI", type |-> cur.type, move |-> move, top |-> top,
                  pre |-> board, preScore |-> score, preLines |-> lines,
                  preLevel |-> level]} :
        /\ aiTimer' = 0
        /\ IF BelowThreshold(move.score)
           THEN /\ gameOver' = TRUE
                /\ last' = note @@ [did |-> "noMove"]
                /\ UNCHANGED <<board, cur, bag, score, lines, level, drawn, draws>>
           ELSE IF top = INT_MIN
           THEN /\ gameOver' = TRUE
                /\ last' = note @@ [did |-> "noDrop"]
                /\ UNCHANGED <<board, cur, bag, score, lines, level, drawn, draws>>
           ELSE AIPlace(move, top, note)

\* game->updateAI(dt), called by main for a game that is not in MANUAL mode
UpdateAI ==
    /\ InPlay
    /\ mode = "AI"
    /\ draws < MaxSpawns
    /\ \E due \in {aiTimer + dt >= AI_COOLDOWN : dt \in FrameTimes} :
          IF gameOver
          THEN /\ last' = [op |-> "updateAI", did |-> "return"]
               /\ UNCHANGED <<board, cur, bag, score, lines, level, gameOver, aiTimer,
                              drawn, draws>>
          ELSE IF ~due
          THEN /\ \E dt \in {d \in FrameTimes : aiTimer + d < AI_COOLDOWN} :
                     aiTimer' = aiTimer + dt
               /\ last' = [op |-> "updateAI", did |-> "wait"]
               /\ UNCHANGED <<board, cur, bag, score, lines, level, gameOver,
                              drawn, draws>>
          ELSE AIMove
    /\ UNCHANGED <<paused, mode, rng, app>>
    /\ UNCHANGED frameVars

NextAI == UpdateAI

SpecAI == InitAI /\ [][NextAI]_vars

-----------------------------------------------------------------------------
(* The merged program's game in manual mode.  The steps of updateManual are  *)
(* functions of a game value g = [board, cur, bag, score, lines, level,      *)
(* gameOver, paused, manual, log]; log notes what a frame did (history):     *)
(* its moves, rotations, hard drops, locks and gravity steps.                *)

\* static const int pointsPer[5] = {0,40,100,300,1200}
pointsPer == <<0, 40, 100, 300, 1200>>

NoLog == [moves |-> <<>>, rots |-> <<>>, drops |-> <<>>, locks |-> <<>>, falls |-> <<>>]

\* a clearLines that scores with the level after the clear
Game_clearLines_NewLevel(g) ==
    CHOOSE h \in
        {IF res.cleared > 0
         THEN [g EXCEPT !.board = res.cells,
                        !.lines = g.lines + res.cleared,
                        !.score = g.score + pointsPer[res.cleared + 1]
                                            * (1 + (g.lines + res.cleared) \div 10),
                        !.level = 1 + (g.lines + res.cleared) \div 10]
         ELSE [g EXCEPT !.board = res.cells] :
            res \in {clearLines(g.board)}} : TRUE

\* a clearLines that computes the level before it adds the rows to lines
Game_clearLines_StaleLevel(g) ==
    CHOOSE h \in
        {IF res.cleared > 0
         THEN [g EXCEPT !.board = res.cells,
                        !.lines = g.lines + res.cleared,
                        !.score = g.score + pointsPer[res.cleared + 1] * g.level,
                        !.level = 1 + g.lines \div 10]
         ELSE [g EXCEPT !.board = res.cells] :
            res \in {clearLines(g.board)}} : TRUE

\* a clearLines() that counts every cleared row twice and reads the points
\* table at the last entry when the count runs past it
Game_clearLines_CountsTwice(g) ==
    CHOOSE h \in
        {IF res.cleared > 0
         THEN [g EXCEPT !.board = res.cells,
                        !.lines = g.lines + 2 * res.cleared,
                        !.score = g.score
                                  + pointsPer[IF 2 * res.cleared < Len(pointsPer)
                                              THEN 2 * res.cleared + 1
                                              ELSE Len(pointsPer)] * g.level,
                        !.level = 1 + (g.lines + 2 * res.cleared) \div 10]
         ELSE [g EXCEPT !.board = res.cells] :
            res \in {clearLines(g.board)}} : TRUE

\* Game::clearLines: board.clearLines(), then lines, score, level
Game_clearLines(g) ==
    CHOOSE h \in
        {IF res.cleared > 0
         THEN [g EXCEPT !.board = res.cells,
                        !.lines = g.lines + res.cleared,
                        !.score = g.score + pointsPer[res.cleared + 1] * g.level,
                        !.level = 1 + (g.lines + res.cleared) \div 10]
         ELSE [g EXCEPT !.board = res.cells] :
            res \in {clearLines(g.board)}} : TRUE

\* a lock that leaves out the cells of column 0
RECURSIVE lockLoop_SkipsColumn0(_, _, _)
lockLoop_SkipsColumn0(cells, p, k) ==
    IF k > 15 THEN cells
    ELSE LET i == k \div 4
             j == k % 4
             bx == p.x + j
             by == p.y + i
         IN  IF /\ pieceCell(p.type, p.rotation, i, j) # 0
                /\ by >= 0 /\ by < BOARD_H /\ bx > 0 /\ bx < BOARD_W
             THEN lockLoop_SkipsColumn0([cells EXCEPT ![by + 1][bx + 1] = p.type + 1],
                                        p, k + 1)
             ELSE lockLoop_SkipsColumn0(cells, p, k + 1)

\* the loops of Game::lockPiece, cell k = 4*i + j: board.cells[by][bx] =
\* cur.type + 1 for the piece's cells inside the grid
RECURSIVE lockLoop(_, _, _)
lockLoop(cells, p, k) ==
    IF k > 15 THEN cells
    ELSE LET i == k \div 4
             j == k % 4
             bx == p.x + j
             by == p.y + i
         IN  IF /\ pieceCell(p.type, p.rotation, i, j) # 0
                /\ by >= 0 /\ by < BOARD_H /\ bx >= 0 /\ bx < BOARD_W
             THEN lockLoop([cells EXCEPT ![by + 1][bx + 1] = p.type + 1], p, k + 1)
             ELSE lockLoop(cells, p, k + 1)

lockCells(cells, p) == lockLoop(cells, p, 0)

\* Game::lockPiece: write the cells, clearLines(), spawnPiece(); the outcomes
\* over the refills the generator can produce
lockPiece(g, shuffles) ==
    UNION {
        {[h EXCEPT !.cur = sp.cur,
                   !.bag = sp.bag,
                   !.gameOver = (h.gameOver \/ sp.collided),
                   !.log.locks = Append(g.log.locks,
                       [piece |-> g.cur, pre |-> g.board,
                        locked |-> pair[1], post |-> h.board,
                        score |-> g.score, lines |-> g.lines, level |-> g.level,
                        wasOver |-> g.gameOver, spawn |-> sp.cur,
                        collided |-> sp.collided])] :
            h \in {pair[2]}, sp \in spawnPiece(pair[2].board, pair[2].bag, shuffles)} :
        pair \in {<<locked, Game_clearLines([g EXCEPT !.board = locked])>> :
                     locked \in {lockCells(g.board, g.cur)}}}

\* a hard drop that takes the row Board::dropPosition gives for the shape
hardDropLoop_FromTop(cells, p) ==
    [p EXCEPT !.y = dropPosition(cells,
                        [i \in Ix4 |-> [j \in Ix4 |-> pieceCell(p.type, p.rotation, i, j)]],
                        p.x)]

\* a hard drop that stops one row above the resting row
RECURSIVE hardDropLoop_StopsShort(_, _)
hardDropLoop_StopsShort(cells, p) ==
    IF ~collidesPiece(cells, p.x, p.y + 2, p.type, p.rotation)
    THEN hardDropLoop_StopsShort(cells, [p EXCEPT !.y = p.y + 1])
    ELSE p

\* while(!collidesPiece(cur.x, cur.y+1, cur.type, cur.rotation)) cur.y++;
RECURSIVE hardDropLoop(_, _)
hardDropLoop(cells, p) ==
    IF ~collidesPiece(cells, p.x, p.y + 1, p.type, p.rotation)
    THEN hardDropLoop(cells, [p EXCEPT !.y = p.y + 1])
    ELSE p

\* Game::hardDrop
hardDrop(g, shuffles) ==
    UNION {lockPiece([g EXCEPT !.cur = to,
                               !.log.drops = Append(@, [from |-> g.cur, to |-> to])],
                     shuffles) : to \in {hardDropLoop(g.board, g.cur)}}

\* gravityDelay = max(0.05f, 0.8f - (level-1)*0.05f); both timers += dt
startFrame(g, dt) ==
    LET d == GRAVITY_BASE - (g.level - 1) * GRAVITY_STEP
    IN  [g EXCEPT !.manual.gravityDelay = IF d < GRAVITY_STEP THEN GRAVITY_STEP ELSE d,
                  !.manual.gravityTimer = g.manual.gravityTimer + dt,
                  !.manual.inputTimer = g.manual.inputTimer + dt]

\* moveStep without the collision test: the attempt always moves the piece
moveStep_IgnoresCollision(g, key, down, held, dx, dy) ==
    IF down
    THEN IF ~g.manual[held] \/ g.manual.inputTimer >= INPUT_DELAY
         THEN [g EXCEPT !.cur.x = @ + dx,
                        !.cur.y = @ + dy,
                        !.manual[held] = TRUE,
                        !.manual.inputTimer = 0,
                        !.log.moves = Append(@, [key |-> key, from |-> g.cur,
                                                 blocked |-> FALSE])]
         ELSE g
    ELSE [g EXCEPT !.manual[held] = FALSE]

\* one of the three IsKeyDown blocks: key is down or not, held is the key's
\* flag, (dx, dy) the move it attempts
moveStep(g, key, down, held, dx, dy) ==
    IF down
    THEN IF ~g.manual[held] \/ g.manual.inputTimer >= INPUT_DELAY
         THEN LET blocked == collidesPiece(g.board, g.cur.x + dx, g.cur.y + dy,
                                           g.cur.type, g.cur.rotation)
              IN  [g EXCEPT !.cur.x = IF blocked THEN @ ELSE @ + dx,
                            !.cur.y = IF blocked THEN @ ELSE @ + dy,
                            !.manual[held] = TRUE,
                            !.manual.inputTimer = 0,
                            !.log.moves = Append(@, [key |-> key, from |-> g.cur,
                                                     blocked |-> blocked])]
         ELSE g
    ELSE [g EXCEPT !.manual[held] = FALSE]


\* a rotation that tries the column to the right before the column to the left
rotateStep_KicksRightFirst(g, pressed, turn) ==
    IF ~pressed THEN g
    ELSE LET newRot == (g.cur.rotation + turn) % 4
             c == g.cur
             to == IF ~collidesPiece(g.board, c.x, c.y, c.type, newRot)
                   THEN [c EXCEPT !.rotation = newRot]
                   ELSE IF ~collidesPiece(g.board, c.x + 1, c.y, c.type, newRot)
                   THEN [c EXCEPT !.x = c.x + 1, !.rotation = newRot]
                   ELSE IF ~collidesPiece(g.board, c.x - 1, c.y, c.type, newRot)
                   THEN [c EXCEPT !.x = c.x - 1, !.rotation = newRot]
                   ELSE c
         IN  [g EXCEPT !.cur = to,
                       !.log.rots = Append(@, [from |-> c, newRot |-> newRot,
                                               to |-> to])]

\* one of the two IsKeyPressed rotation blocks, turn = 1 (UP or X) or 3 (Z):
\* in place, else one column left, else one column right, else nothing
rotateStep(g, pressed, turn) ==
    IF ~pressed THEN g
    ELSE LET newRot == (g.cur.rotation + turn) % 4
             c == g.cur
             to == IF ~collidesPiece(g.board, c.x, c.y, c.type, newRot)
                   THEN [c EXCEPT !.rotation = newRot]
                   ELSE IF ~collidesPiece(g.board, c.x - 1, c.y, c.type, newRot)
                   THEN [c EXCEPT !.x = c.x - 1, !.rotation = newRot]
                   ELSE IF ~collidesPiece(g.board, c.x + 1, c.y, c.type, newRot)
                   THEN [c EXCEPT !.x = c.x + 1, !.rotation = newRot]
                   ELSE c
         IN  [g EXCEPT !.cur = to,
                       !.log.rots = Append(@, [from |-> c, newRot |-> newRot,
                                               to |-> to])]

\* a hard drop that leaves the gravity timer running
spaceStep_KeepsTimer(g, pressed, shuffles) ==
    IF ~pressed THEN {g}
    ELSE hardDrop(g, shuffles)

\* if(IsKeyPressed(KEY_SPACE)){ hardDrop(); gravityTimer = 0; }
spaceStep(g, pressed, shuffles) ==
    IF ~pressed THEN {g}
    ELSE {[h EXCEPT !.manual.gravityTimer = 0] : h \in hardDrop(g, shuffles)}

\* a gravity step that neither tests the row below nor locks
gravityStep_FallsThrough(g, shuffles) ==
    IF g.manual.gravityTimer >= g.manual.gravityDelay
    THEN {[g EXCEPT !.manual.gravityTimer = 0,
                    !.log.falls = Append(@, [from |-> g.cur, blocked |-> FALSE]),
                    !.cur.y = @ + 1]}
    ELSE {g}

\* if(gravityTimer >= gravityDelay){ ... }: one row down, or lock
gravityStep(g, shuffles) ==
    IF g.manual.gravityTimer >= g.manual.gravityDelay
    THEN LET blocked == collidesPiece(g.board, g.cur.x, g.cur.y + 1, g.cur.type,
                                      g.cur.rotation)
             h == [g EXCEPT !.manual.gravityTimer = 0,
                            !.log.falls = Append(@, [from |-> g.cur,
                                                     blocked |-> blocked])]
         IN  IF ~blocked THEN {[h EXCEPT !.cur.y = @ + 1]}
             ELSE lockPiece(h, shuffles)
    ELSE {g}

\* an updateManual that goes on after game over
updateManual_IgnoresGameOver(g, keys, dt, shuffles) ==
    IF g.paused THEN {g}
    ELSE LET S0 == {startFrame(g, dt)}
             S1 == {moveStep(h, "LEFT", "LEFT" \in keys, "leftHeld", -1, 0) : h \in S0}
             S2 == {moveStep(h, "RIGHT", "RIGHT" \in keys, "rightHeld", 1, 0) : h \in S1}
             S3 == {moveStep(h, "DOWN", "DOWN" \in keys, "downHeld", 0, 1) : h \in S2}
             S4 == {rotateStep(h, "UP" \in keys, 1) : h \in S3}
             S5 == {rotateStep(h, "Z" \in keys, 3) : h \in S4}
             S6 == UNION {spaceStep(h, "SPACE" \in keys, shuffles) : h \in S5}
         IN  UNION {gravityStep(h, shuffles) : h \in S6}

\* an updateManual that goes on while paused
updateManual_IgnoresPaused(g, keys, dt, shuffles) ==
    IF g.gameOver THEN {g}
    ELSE LET S0 == {startFrame(g, dt)}
             S1 == {moveStep(h, "LEFT", "LEFT" \in keys, "leftHeld", -1, 0) : h \in S0}
             S2 == {moveStep(h, "RIGHT", "RIGHT" \in keys, "rightHeld", 1, 0) : h \in S1}
             S3 == {moveStep(h, "DOWN", "DOWN" \in keys, "downHeld", 0, 1) : h \in S2}
             S4 == {rotateStep(h, "UP" \in keys, 1) : h \in S3}
             S5 == {rotateStep(h, "Z" \in keys, 3) : h \in S4}
             S6 == UNION {spaceStep(h, "SPACE" \in keys, shuffles) : h \in S5}
         IN  UNION {gravityStep(h, shuffles) : h \in S6}

\* Game::updateManual(dt) with the keys of this frame: the games it can leave
updateManual(g, keys, dt, shuffles) ==
    IF g.gameOver \/ g.paused THEN {g}
    ELSE LET S0 == {startFrame(g, dt)}
             S1 == {moveStep(h, "LEFT", "LEFT" \in keys, "leftHeld", -1, 0) : h \in S0}
             S2 == {moveStep(h, "RIGHT", "RIGHT" \in keys, "rightHeld", 1, 0) : h \in S1}
             S3 == {moveStep(h, "DOWN", "DOWN" \in keys, "downHeld", 0, 1) : h \in S2}
             S4 == {rotateStep(h, "UP" \in keys, 1) : h \in S3}
             S5 == {rotateStep(h, "Z" \in keys, 3) : h \in S4}
             S6 == UNION {spaceStep(h, "SPACE" \in keys, shuffles) : h \in S5}
         IN  UNION {gravityStep(h, shuffles) : h \in S6}

\* the PLAYING branch of main for a manual game: P toggles paused, then
\* updateManual
playFrame(g, keys, dt, shuffles) ==
    updateManual([g EXCEPT !.paused = IF "P" \in keys THEN ~g.paused ELSE g.paused],
                 keys, dt, shuffles)


\* the number of frames a manual game is run for
MaxTicks == 2

\* the keys of a frame: none, each key alone, and keys together
KeySets ==
    {{}, {"LEFT"}, {"RIGHT"}, {"DOWN"}, {"UP"}, {"Z"}, {"SPACE"}, {"P"},
     {"LEFT", "DOWN"}, {"LEFT", "SPACE"}, {"UP", "SPACE"}}

\* the frames of a manual game: every key set in a short frame, and some in a
\* frame long enough for gravity to fire
Frames ==
    {[keys |-> k, dt |-> INPUT_DELAY \div 2] : k \in KeySets}
    \cup {[keys |-> k, dt |-> GRAVITY_BASE] :
            k \in {{}, {"DOWN"}, {"SPACE"}, {"P"}, {"LEFT", "DOWN"}}}

\* a board with a ledge: column 1 filled from row 2 down, and on it a J piece
\* lying over columns 1..3 at row 1 with its hook at row 0, column 1, so that
\* nothing is under columns 2..3 of row 1
LedgeBoard ==
    [i \in 1 .. BOARD_H |->
        [k \in 1 .. BOARD_W |->
            IF k - 1 = 1 /\ i - 1 >= 2 THEN 1
            ELSE IF (k - 1 \in 1 .. 3 /\ i - 1 = 1) \/ (k - 1 = 1 /\ i - 1 = 0) THEN 4
            ELSE 0]]

\* a board with a pillar: column 5 filled from row 4 down
PillarBoard ==
    [i \in 1 .. BOARD_H |->
        [k \in 1 .. BOARD_W |-> IF k - 1 = 5 /\ i - 1 >= 4 THEN 1 ELSE 0]]

\* the board with the bottom row filled but for columns 0..3
GapBoard == [EmptyBoard EXCEPT ![BOARD_H] = RowOf(Cols \ (0 .. 3), 1)]

\* a piece of a type at the spawn position, and at a position
SpawnOf(t) == [type |-> t, x |-> (BOARD_W \div 2) - 2, y |-> 0, rotation |-> 0]

PieceAt(t, x, y, r) == [type |-> t, x |-> x, y |-> y, rotation |-> r]

\* the leftmost and the rightmost column of the window at which a piece fits
\* in row 0 of the empty board
WallCols(t, r) ==
    LET fits == {x \in LeftCols : ~collidesPiece(EmptyBoard, x, 0, t, r)}
    IN  {x \in fits : (x - 1) \notin fits \/ (x + 1) \notin fits}

\* the score of n lines cleared one at a time: points for each, times the
\* level in force when byLevel
RECURSIVE SinglesScore(_, _, _)
SinglesScore(n, points, byLevel) ==
    IF n = 0 THEN 0
    ELSE SinglesScore(n - 1, points, byLevel)
         + points * (IF byLevel THEN 1 + (n - 1) \div 10 ELSE 1)

\* the states a game is picked up at on a board with a piece: the lines are
\* the fewest the board's cell count allows, or some more, cleared one at a
\* time
SeedsOf(b, p, more, points, byLevel) ==
    {[board |-> b, cur |-> p, lines |-> n, level |-> 1 + n \div 10,
      score |-> SinglesScore(n, points, byLevel)] :
        n \in {OwedLines(b) + m : m \in more}}

\* the states a manual game is picked up at.  Every type at spawn on the empty
\* board and on the board filled from row 2 down but for column 0; every type
\* and rotation against a wall of the empty board; the I piece over 1..4 rows
\* filled but for column 5; the O piece beside the ledge; the I piece at spawn
\* over the pillar
ManualSeeds ==
    UNION ({SeedsOf(b, SpawnOf(t), {0}, pointsPer[2], TRUE) :
                b \in {EmptyBoard, GameWell(BOARD_H - 2, 0)}, t \in Types}
           \cup {SeedsOf(EmptyBoard, PieceAt(q.t, q.x, 0, q.r), {0}, pointsPer[2], TRUE) :
                    q \in {w \in [t : Types, r : Ix4, x : LeftCols] :
                              w.x \in WallCols(w.t, w.r)}}
           \cup {SeedsOf(GameWell(k, 5), SpawnOf(0), {0, 8, 10}, pointsPer[2], TRUE) :
                    k \in 1 .. (Len(pointsPer) - 1)}
           \cup {SeedsOf(LedgeBoard, PieceAt(1, 3, 2, 0), {0}, pointsPer[2], TRUE),
                 SeedsOf(PillarBoard, SpawnOf(0), {0}, pointsPer[2], TRUE)})

\* the game as a value
GameNow ==
    [board |-> board, cur |-> cur, bag |-> bag, score |-> score, lines |-> lines,
     level |-> level, gameOver |-> gameOver, paused |-> paused, manual |-> manual,
     log |-> NoLog]

\* the draws of a frame's locks, noted in order
RECURSIVE NoteLocks(_, _)
NoteLocks(d, locks) ==
    IF locks = <<>> THEN d
    ELSE NoteLocks(NoteDraw(d, Head(locks).spawn.type), Tail(locks))

\* a manual game under way, picked up at one of the states seeds: Game(MANUAL)
\* has drawn the piece from a new bag, and the board, the piece's position,
\* lines, level and score are those of the state
ManualGameAt(seeds) ==
    /\ \E seed \in seeds : \E b0 \in PickedShuffles :
          /\ b0[BAG_SIZE] = seed.cur.type
          /\ board = seed.board
          /\ cur = seed.cur
          /\ bag = SubSeq(b0, 1, BAG_SIZE - 1)
          /\ lines = seed.lines
          /\ score = seed.score
          /\ level = seed.level
          /\ drawn = NoteDraw(NoDraws, seed.cur.type)
    /\ gameOver = FALSE
    /\ paused = FALSE
    /\ mode = "MANUAL"
    /\ aiTimer = 0
    /\ manual = NewManual
    /\ nextType = 0
    /\ ticks = 0
    /\ rng = <<>>
    /\ app = Playing("MANUAL")
    /\ draws = 1
    /\ last = NoCall

InitManual == ManualGameAt(ManualSeeds)

\* the movement keys
MoveKeys == {"LEFT", "RIGHT", "DOWN"}

\* history of the held keys: for each movement key the milliseconds of running
\* game since its previous attempt, or -1 when it was not down in the last
\* frame of the running game
HeldFor == IF last.op = "frame" THEN last.since ELSE [k \in MoveKeys |-> -1]

\* the history after a frame with these keys that attempted the moves tried;
\* a frame of a paused or finished game reads no key and leaves it as it was
HeldAfter(was, keys, dt, tried, running) ==
    [k \in MoveKeys |->
        IF ~running THEN was[k]
        ELSE IF k \notin keys THEN -1
        ELSE IF k \in tried \/ was[k] < 0 THEN 0
        ELSE was[k] + dt]

\* one frame of main's PLAYING branch for a manual game
ManualFrame ==
    /\ InPlay
    /\ mode = "MANUAL"
    /\ ticks < MaxTicks
    /\ \E f \in Frames :
       \E g \in {GameNow} :
       \E h \in playFrame(g, f.keys, f.dt, PickedShuffles) :
          /\ board' = h.board
          /\ cur' = h.cur
          /\ bag' = h.bag
          /\ score' = h.score
          /\ lines' = h.lines
          /\ level' = h.level
          /\ gameOver' = h.gameOver
          /\ paused' = h.paused
          /\ manual' = h.manual
          /\ drawn' = NoteLocks(drawn, h.log.locks)
          /\ draws' = draws + Len(h.log.locks)
          /\ last' = [op |-> "frame", keys |-> f.keys, dt |-> f.dt, pre |-> g,
                      log |-> h.log, was |-> HeldFor,
                      since |-> HeldAfter(HeldFor, f.keys, f.dt,
                                          {h.log.moves[k].key : k \in DOMAIN h.log.moves},
                                          ~g.gameOver /\ ~h.paused)]
    /\ ticks' = ticks + 1
    /\ UNCHANGED <<mode, aiTimer, nextType, rng, app>>

NextManual == ManualFrame

SpecManual == InitManual /\ [][NextManual]_vars

-----------------------------------------------------------------------------
(* The end-to-end scenarios: a manual game whose board and piece are set up, *)
(* then frames                                                               *)

\* the set-ups: the O piece at spawn on the empty board; the I piece lying at
\* column 0, row 0 over a bottom row filled but for column 0, and but for
\* columns 0..3; each at level 1 and at level 2
ScenarioSeeds ==
    {[board |-> q[1], cur |-> q[2], lines |-> n, level |-> 1 + n \div 10,
      score |-> SinglesScore(n, pointsPer[2], TRUE)] :
        q \in {<<EmptyBoard, SpawnOf(1)>>,
               <<WellBoard(1, 0), PieceAt(0, 0, 0, 0)>>,
               <<GapBoard, PieceAt(0, 0, 0, 0)>>},
        n \in {0, 10}}

InitScenarios == ManualGameAt(ScenarioSeeds)

NextScenarios == ManualFrame

SpecScenarios == InitScenarios /\ [][NextScenarios]_vars

-----------------------------------------------------------------------------
(* AI games picked up later, in the merged program and in the AI-only       *)
(* program (src/tetris.cpp), whose main holds the game in local variables:   *)
(* currentType (cur.type), nextType, score, totalLines (lines), gameOver.    *)

\* the boards, lines and scores AI games are picked up at: the empty board,
\* 1..4 rows filled but for column 0 (two rows also with eight lines more,
\* three rows with ten more), and the board filled but for column 0 and its
\* top MaxGap or fewer rows
AISeeds ==
    UNION ({SeedsOf(EmptyBoard, NoPiece, {0}, 100, FALSE),
            SeedsOf(GameWell(2, 0), NoPiece, {8}, 100, FALSE),
            SeedsOf(GameWell(3, 0), NoPiece, {10}, 100, FALSE)}
           \cup {SeedsOf(GameWell(k, 0), NoPiece, {0}, 100, FALSE) : k \in 1 .. 4}
           \cup {SeedsOf(GameWell(BOARD_H - g, 0), NoPiece, {0}, 100, FALSE) : g \in 1 .. MaxGap})

\* Game(AI) picked up later at one of the states seeds, with its paused member
\* as given: the piece has just been spawned on the board
AIGameAt(seeds, flag) ==
    /\ \E seed \in seeds : \E b0 \in PickedShuffles :
       \E sp \in spawnPiece(seed.board, b0, PickedShuffles) :
          /\ board = seed.board
          /\ lines = seed.lines
          /\ score = seed.score
          /\ cur = sp.cur
          /\ bag = sp.bag
          /\ gameOver = sp.collided
          /\ level = seed.level
          /\ drawn = NoteDraw(NoDraws, sp.cur.type)
    /\ paused = flag
    /\ mode = "AI"
    /\ aiTimer = 0
    /\ manual = NewManual
    /\ nextType = 0
    /\ ticks = 0
    /\ rng = <<>>
    /\ app = Playing("AI")
    /\ draws = 1
    /\ last = NoCall

\* main never sets paused for a game that is not in MANUAL mode
InitAIPicked == AIGameAt(AISeeds, FALSE)

\* tetris.cpp main before the loop, picked up later: currentType and nextType
\* are the first two draws of the bag
InitAIOnly ==
    /\ \E seed \in AISeeds : \E b0 \in PickedShuffles :
          /\ board = seed.board
          /\ lines = seed.lines
          /\ score = seed.score
          /\ cur = [NoPiece EXCEPT !.type = b0[BAG_SIZE]]
          /\ nextType = b0[BAG_SIZE - 1]
          /\ bag = SubSeq(b0, 1, BAG_SIZE - 2)
          /\ drawn = NoteDraw(NoteDraw(NoDraws, b0[BAG_SIZE]), b0[BAG_SIZE - 1])
    /\ level = 1
    /\ gameOver = FALSE
    /\ paused = FALSE
    /\ mode = "AIONLY"
    /\ aiTimer = 0
    /\ manual = NewManual
    /\ ticks = 0
    /\ rng = <<>>
    /\ app = NoApp
    /\ draws = 2
    /\ last = NoCall

\* tetris.cpp: place, clear, score, take nextType, draw, test the spawn
AIOnlyPlace(move, top, note) ==
    \E res \in {clearLines(placePiece(board, StateOf(cur.type, move.rotationIndex),
                                      top, move.leftC,
                                      tetrominoes[cur.type + 1].colorId))} :
        /\ board' = res.cells
        /\ lines' = lines + res.cleared
        /\ score' = IF res.cleared > 0 THEN score + 100 * Shl1(res.cleared - 1)
                    ELSE score
        /\ cur' = [cur EXCEPT !.type = nextType]
        /\ \E n \in Bag_next(bag, GameShuffles) :
              /\ nextType' = n.t
              /\ bag' = n.bag
              /\ drawn' = NoteDraw(drawn, n.t)
        /\ gameOver' = collides(res.cells, StateOf(nextType, 0), -4, (BOARD_W \div 2) - 2)
        /\ draws' = draws + 1
        /\ last' = note @@ [did |-> "placed", cleared |-> res.cleared]

\* tetris.cpp: the body of if (aiTimer >= aiCooldown)
AIOnlyMove ==
    \E move \in {findBestMove(board, cur.type)} :
    \E top \in {dropPosition(board, StateOf(cur.type, move.rotationIndex), move.leftC)} :
    \E note \in {[op |-> "aiTick", type |-> cur.type, move |-> move, top |-> top,
                  pre |-> board, preScore |-> score, preLines |-> lines,
                  preLevel |-> level]} :
        /\ aiTimer' = 0
        /\ IF BelowThreshold(move.score)
           THEN /\ gameOver' = TRUE
                /\ last' = note @@ [did |-> "noMove"]
                /\ UNCHANGED <<board, cur, bag, score, lines, nextType, drawn, draws>>
           ELSE IF top = INT_MIN
           THEN /\ gameOver' = TRUE
                /\ last' = note @@ [did |-> "noDrop"]
                /\ UNCHANGED <<board, cur, bag, score, lines, nextType, drawn, draws>>
           ELSE AIOnlyPlace(move, top, note)

\* tetris.cpp: one pass of main's loop
AIOnlyTick ==
    /\ mode = "AIONLY"
    /\ draws <= MaxSpawns
    /\ \E due \in {aiTimer + dt >= AI_COOLDOWN : dt \in FrameTimes} :
          IF gameOver
          THEN /\ last' = [op |-> "aiTick", did |-> "return"]
               /\ UNCHANGED <<board, cur, bag, score, lines, gameOver, aiTimer,
                              nextType, drawn, draws>>
          ELSE IF ~due
          THEN /\ \E dt \in {d \in FrameTimes : aiTimer + d < AI_COOLDOWN} :
                     aiTimer' = aiTimer + dt
               /\ last' = [op |-> "aiTick", did |-> "wait"]
               /\ UNCHANGED <<board, cur, bag, score, lines, gameOver, nextType,
                              drawn, draws>>
          ELSE AIOnlyMove
    /\ UNCHANGED <<level, paused, mode, manual, ticks, rng, app>>

\* the programs together: a manual game or an AI game of the merged program, or
\* the AI-only program, each picked up at one of its states
InitGames == InitManual \/ InitAIPicked \/ InitAIOnly

NextGames == ManualFrame \/ UpdateAI \/ AIOnlyTick

SpecGames == InitGames /\ [][NextGames]_vars

-----------------------------------------------------------------------------
(* Game::updateAI alone, called on an AI game whose public member paused is  *)
(* set.  main does not set it for an AI game (P is read for MANUAL only), so *)
(* this is updateAI as a unit, not a state main reaches.                     *)

InitAIPaused == AIGameAt(AISeeds, TRUE)

NextAIPaused == UpdateAI

SpecAIPaused == InitAIPaused /\ [][NextAIPaused]_vars

-----------------------------------------------------------------------------
(* The main loop of the merged program: menu, mode selection, playing *)

\* the keys the menus read
MenuKeys == SUBSET {"UP", "DOWN", "ENTER", "ESC"}

\* the MAIN_MENU branch: the option moves on UP and DOWN, ENTER acts on it;
\* with the instructions shown, ESC or ENTER closes them
mainMenu(a, keys) ==
    IF ~a.showInstructions
    THEN LET up == IF "UP" \in keys THEN (a.selectedMenuOption - 1 + 3) % 3
                   ELSE a.selectedMenuOption
             opt == IF "DOWN" \in keys THEN (up + 1) % 3 ELSE up
             b == [a EXCEPT !.selectedMenuOption = opt]
         IN  IF "ENTER" \notin keys THEN b
             ELSE IF opt = 0
                  THEN [b EXCEPT !.gameState = "MODE_SELECT", !.selectedMode = "MANUAL"]
             ELSE IF opt = 1 THEN [b EXCEPT !.showInstructions = TRUE]
             ELSE [b EXCEPT !.running = FALSE]
    ELSE IF "ESC" \in keys \/ "ENTER" \in keys
         THEN [a EXCEPT !.showInstructions = FALSE]
         ELSE a

\* the other mode
Toggled(m) == IF m = "MANUAL" THEN "AI" ELSE "MANUAL"

\* the MODE_SELECT branch but for the construction of the game: UP and DOWN
\* each toggle the mode, ENTER starts to play, ESC goes back to the menu
modeSelect(a, keys) ==
    LET m1 == IF "UP" \in keys THEN Toggled(a.selectedMode) ELSE a.selectedMode
        m2 == IF "DOWN" \in keys THEN Toggled(m1) ELSE m1
        b == [a EXCEPT !.selectedMode = m2]
        c == IF "ENTER" \in keys THEN [b EXCEPT !.game = "live", !.gameState = "PLAYING"]
             ELSE b
    IN  IF "ESC" \in keys
        THEN [c EXCEPT !.gameState = "MAIN_MENU", !.selectedMenuOption = 0]
        ELSE c

\* the games main is picked up with while playing: manual games on a stack
\* that leaves two rows, and AI games on stacks that leave one or two
MainManualSeeds ==
    UNION {SeedsOf(GameWell(BOARD_H - 2, 0), SpawnOf(t), {0}, pointsPer[2], TRUE) :
              t \in Types}

MainAISeeds ==
    UNION {SeedsOf(GameWell(BOARD_H - g, 0), NoPiece, {0}, 100, FALSE) : g \in 1 .. 2}

\* main before its first frame
InitMenu ==
    /\ app = [gameState |-> "MAIN_MENU", selectedMode |-> "MANUAL",
              selectedMenuOption |-> 0, showInstructions |-> FALSE,
              game |-> "null", running |-> TRUE]
    /\ board = EmptyBoard
    /\ bag = <<>>
    /\ drawn = NoDraws
    /\ draws = 0
    /\ last = NoCall
    /\ cur = NoPiece
    /\ score = 0
    /\ lines = 0
    /\ level = 1
    /\ gameOver = FALSE
    /\ paused = FALSE
    /\ mode = "NONE"
    /\ aiTimer = 0
    /\ manual = NewManual
    /\ nextType = 0
    /\ ticks = 0
    /\ rng = <<>>

InitMain == InitMenu \/ ManualGameAt(MainManualSeeds) \/ AIGameAt(MainAISeeds, FALSE)

\* a frame of the MAIN_MENU branch
MainMenuFrame ==
    /\ app.running
    /\ app.gameState = "MAIN_MENU"
    /\ \E keys \in MenuKeys :
          /\ app' = mainMenu(app, keys)
          /\ last' = [op |-> "mainMenu", keys |-> keys]
    /\ UNCHANGED <<board, cur, bag, rng, score, lines, level, gameOver, paused, mode,
                   aiTimer, manual, nextType, ticks, drawn, draws>>

\* a frame of the MODE_SELECT branch; on ENTER: if(game) delete game;
\* game = new Game(selectedMode)
ModeSelectFrame ==
    /\ app.running
    /\ app.gameState = "MODE_SELECT"
    /\ \E keys \in MenuKeys :
          /\ app' = modeSelect(app, keys)
          /\ last' = [op |-> "modeSelect", keys |-> keys]
          /\ IF "ENTER" \in keys
             THEN /\ \E b0 \in PickedShuffles :
                     \E sp \in spawnPiece(EmptyBoard, b0, PickedShuffles) :
                        /\ cur' = sp.cur
                        /\ bag' = sp.bag
                        /\ gameOver' = sp.collided
                        /\ drawn' = NoteDraw(NoDraws, sp.cur.type)
                  /\ board' = EmptyBoard
                  /\ score' = 0
                  /\ lines' = 0
                  /\ level' = 1
                  /\ paused' = FALSE
                  /\ mode' = app'.selectedMode
                  /\ aiTimer' = 0
                  /\ manual' = NewManual
                  /\ ticks' = 0
                  /\ draws' = 1
             ELSE UNCHANGED <<board, cur, bag, score, lines, level, gameOver, paused,
                              mode, aiTimer, manual, ticks, drawn, draws>>
    /\ UNCHANGED <<rng, nextType>>

\* a frame of the PLAYING branch with ESC pressed after game over: the P
\* toggle, then gameState = MAIN_MENU, delete game, game = nullptr, and then
\* game->mode is read through the null pointer.  That read is undefined: the
\* program is killed, or goes on without a call on the game
EscapeFrame ==
    /\ InPlay
    /\ gameOver
    /\ \E keys \in {{"ESC"}, {"ESC", "P"}} : \E goesOn \in BOOLEAN :
          /\ paused' = IF "P" \in keys /\ mode = "MANUAL" THEN ~paused ELSE paused
          /\ app' = [app EXCEPT !.gameState = "MAIN_MENU", !.selectedMenuOption = 0,
                                !.game = "null", !.running = goesOn]
          /\ last' = [op |-> "escape", keys |-> keys, game |-> "null"]
    /\ UNCHANGED <<board, cur, bag, rng, score, lines, level, gameOver, mode,
                   aiTimer, manual, nextType, ticks, drawn, draws>>

NextMain == MainMenuFrame \/ ModeSelectFrame \/ EscapeFrame \/ ManualFrame \/ UpdateAI

SpecMain == InitMain /\ [][NextMain]_vars

-----------------------------------------------------------------------------
(* The fall of one piece of a manual game, from its spawn to its lock *)

\* the frames without a move attempt a falling game is followed for
MaxIdleFrames == 2

\* the frames of a falling game: as long as the gravity delay of level 1, so
\* that gravity fires in each unless the game is paused
FallFrames ==
    {[keys |-> k, dt |-> GRAVITY_BASE] :
        k \in {{}, {"LEFT"}, {"UP"}, {"DOWN"}, {"SPACE"}, {"P"}}}

\* the states a falling game is picked up at: every type at spawn on the empty
\* board, and the I piece at spawn over three rows filled but for column 5
FallSeeds ==
    UNION ({SeedsOf(EmptyBoard, SpawnOf(t), {0}, pointsPer[2], TRUE) : t \in Types}
           \cup {SeedsOf(GameWell(3, 5), SpawnOf(0), {0}, pointsPer[2], TRUE)})

InitFall == ManualGameAt(FallSeeds)

\* history: the gravity firings the active piece has been through, and after a
\* frame that locked a piece, in lockedAt, the firings that piece went through
FiredSoFar == IF last.op = "frame" THEN last.fired ELSE 0

\* one frame of main's PLAYING branch for a manual game while its first piece
\* falls, with the gravity firings of the piece counted
FallFrame ==
    /\ InPlay
    /\ mode = "MANUAL"
    /\ draws = 1
    /\ FiredSoFar <= BOARD_H
    /\ manual.inputTimer <= MaxIdleFrames * GRAVITY_BASE
    /\ \E f \in FallFrames :
       \E g \in {GameNow} :
       \E h \in playFrame(g, f.keys, f.dt, PickedShuffles) :
          /\ board' = h.board
          /\ cur' = h.cur
          /\ bag' = h.bag
          /\ score' = h.score
          /\ lines' = h.lines
          /\ level' = h.level
          /\ gameOver' = h.gameOver
          /\ paused' = h.paused
          /\ manual' = h.manual
          /\ drawn' = NoteLocks(drawn, h.log.locks)
          /\ draws' = draws + Len(h.log.locks)
          /\ last' = [op |-> "frame", keys |-> f.keys, dt |-> f.dt, pre |-> g,
                      log |-> h.log,
                      fired |-> IF h.log.locks # <<>> THEN 0
                                ELSE FiredSoFar + Len(h.log.falls),
                      lockedAt |-> IF h.log.locks # <<>>
                                   THEN FiredSoFar + Len(h.log.falls)
                                   ELSE -1]
    /\ UNCHANGED <<mode, aiTimer, nextType, ticks, rng, app>>

NextFall == FallFrame

SpecFall == InitFall /\ [][NextFall]_vars

-----------------------------------------------------------------------------
(* The two rotation designs, on base masks of any shape *)

\* the number of occupied cells of the base masks
MaxCells == 4

\* the flat 4x4 masks, as the rows of TETROMINO_CLASSIC are written, with at
\* most this many occupied cells
FlatMasks(most) ==
    {m \in [1 .. 16 -> {0, 1}] : Cardinality({k \in 1 .. 16 : m[k] = 1}) <= most}

\* a flat mask as a Matrix4: cell (i, j) is element i*4 + j
AsMatrix(flat) == [i \in Ix4 |-> [j \in Ix4 |-> flat[i * 4 + j + 1]]]

\* the 4x4 mask pieceCell reads from a flat base mask at a rotation
readRotated(flat, rotation) ==
    [i \in Ix4 |-> [j \in Ix4 |-> flat[pieceIdx(rotation, i, j) + 1]]]

\* rotate90 applied this many times, as makeTetrominoes builds its states
RECURSIVE turned(_, _)
turned(m, times) == IF times = 0 THEN m ELSE rotate90(turned(m, times - 1))

InitRotate ==
    /\ \E flat \in FlatMasks(MaxCells) : last = [op |-> "mask", flat |-> flat]
    /\ board = EmptyBoard
    /\ bag = <<>>
    /\ drawn = NoDraws
    /\ draws = 0
    /\ IdleGame

\* the base mask read at a rotation by each design; rotation 4 is the fourth
\* quarter-turn
ReadRotated ==
    /\ last.op = "mask"
    /\ \E rotation \in 0 .. 4 :
          last' = [op |-> "rotated", flat |-> last.flat, rotation |-> rotation,
                   read |-> readRotated(last.flat, rotation),
                   turned |-> turned(AsMatrix(last.flat), rotation)]
    /\ UNCHANGED board
    /\ Untouched

NextRotate == ReadRotated

SpecRotate == InitRotate /\ [][NextRotate]_vars

-----------------------------------------------------------------------------
(* The board features, on boards with holes and overhangs *)

\* the number of rows of the patches of free cells
MaxPatch == 3

\* the patches: any cells in a block of three columns and this many rows
Patches(rows) == [1 .. rows -> [0 .. 2 -> {0, 1}]]

\* a patch with its left column at left, lying on the floor or hanging from
\* the top row
PatchBoard(patch, left, atTop) ==
    [i \in 1 .. BOARD_H |->
        [k \in 1 .. BOARD_W |->
            LET q == IF atTop THEN i ELSE BOARD_H - (i - 1)
                c == (k - 1) - left
            IN  IF q <= Len(patch) /\ c \in 0 .. 2 THEN patch[q][c] * 3 ELSE 0]]

PatchBoards ==
    {PatchBoard(patch, left, atTop) :
        patch \in Patches(MaxPatch), left \in {0, 3, BOARD_W - 3}, atTop \in BOOLEAN}

FeatureBoards == PatchBoards \cup StackBoards \cup CapBoards \cup WellBoards

InitFeatures ==
    /\ board \in FeatureBoards
    /\ bag = <<>>
    /\ drawn = NoDraws
    /\ draws = 0
    /\ last = NoCall
    /\ IdleGame

\* columnHeight(c) for every column, aggregateHeight(), bumpiness(), holes()
Features ==
    /\ last = NoCall
    /\ last' = [op |-> "features",
                columnHeight |-> [c \in Cols |-> columnHeight(board, c)],
                aggregateHeight |-> aggregateHeight(board),
                bumpiness |-> bumpiness(board),
                holes |-> holes(board)]
    /\ UNCHANGED board
    /\ Untouched

NextFeatures == Features

SpecFeatures == InitFeatures /\ [][NextFeatures]_vars

-----------------------------------------------------------------------------
(* The next-5 preview of the manual-only programs (exp.cpp, experiment.cpp) *)

\* the number of shuffles after the constructor's whose outcome is followed
MaxShuffles == 2

\* the number of previews computed between two draws
MaxPreviews == 2

\* the number of types the sidebar shows
PREVIEW_LEN == 5

\* std::shuffle(v.begin(), v.end(), g) on the elements 0..6 in order: the
\* permutation is a function of the generator's state, and the generator
\* advances past it
shuffleWith(g) == [bag |-> Head(g), rng |-> Tail(g)]

\* Game::nextFromBag of exp.cpp: refillBag when empty, then pop the back
nextFromBag(b, g) ==
    LET full == IF b = <<>> THEN shuffleWith(g) ELSE [bag |-> b, rng |-> g]
    IN  [t |-> full.bag[Len(full.bag)],
         bag |-> SubSeq(full.bag, 1, Len(full.bag) - 1),
         rng |-> full.rng]

\* the loop while(preview.size() < 5) on the copies tmpBag and tmpRng
RECURSIVE previewLoop(_, _, _)
previewLoop(tmpBag, tmpRng, preview) ==
    IF Len(preview) >= PREVIEW_LEN
    THEN [preview |-> preview, tmpBag |-> tmpBag, tmpRng |-> tmpRng]
    ELSE LET n == nextFromBag(tmpBag, tmpRng)
         IN  previewLoop(n.bag, n.rng, Append(preview, n.t))

\* a preview that works on game.bag and game.rng themselves
drawPreview_OnLiveBag(b, g) ==
    LET p == previewLoop(b, g, <<>>)
    IN  [preview |-> p.preview, bag |-> p.tmpBag, rng |-> p.tmpRng]

\* the preview block of the render: auto tmpBag = game.bag; std::mt19937
\* tmpRng = game.rng; then the loop on the copies.  The preview, and game.bag
\* and game.rng after it
drawPreview(b, g) ==
    LET p == previewLoop(b, g, <<>>)
    IN  [preview |-> p.preview, bag |-> b, rng |-> g]

\* the types the bag and the generator will hand out, in order
RECURSIVE Stream(_, _)
Stream(b, g) ==
    IF b # <<>> THEN <<b[Len(b)]>> \o Stream(SubSeq(b, 1, Len(b) - 1), g)
    ELSE IF g # <<>> THEN Stream(Head(g), Tail(g))
    ELSE <<>>

\* Game(): seed, refillBag, spawnPiece; the seed is the clock, so the
\* generator starts in any state
InitPreview ==
    /\ \E g \in [1 .. (MaxShuffles + 1) -> PickedShuffles] :
          \E n \in {nextFromBag(<<>>, g)} :
             /\ bag = n.bag
             /\ rng = n.rng
             /\ drawn = NoteDraw(NoDraws, n.t)
             /\ last = [op |-> "next", ret |-> n.t, refilled |-> TRUE,
                        previews |-> 0, stream |-> Stream(n.bag, n.rng)]
    /\ draws = 1
    /\ app = NoApp
    /\ board = EmptyBoard
    /\ cur = NoPiece
    /\ score = 0
    /\ lines = 0
    /\ level = 1
    /\ gameOver = FALSE
    /\ paused = FALSE
    /\ mode = "NONE"
    /\ aiTimer = 0
    /\ manual = NewManual
    /\ nextType = 0
    /\ ticks = 0

\* one call of nextFromBag (from spawnPiece)
NextFromBag ==
    /\ bag # <<>> \/ rng # <<>>
    /\ \E n \in {nextFromBag(bag, rng)} :
          /\ bag' = n.bag
          /\ rng' = n.rng
          /\ drawn' = NoteDraw(drawn, n.t)
          /\ last' = [op |-> "next", ret |-> n.t, refilled |-> (bag = <<>>),
                      previews |-> IF last.op = "preview" THEN last.previews ELSE 0,
                      stream |-> Tail(last.stream)]
    /\ draws' = draws + 1
    /\ UNCHANGED <<board, cur, score, lines, level, gameOver, paused, mode, aiTimer>>
    /\ UNCHANGED <<frameVars, app>>

\* the preview block of one rendered frame
Preview ==
    /\ Len(bag) >= PREVIEW_LEN \/ rng # <<>>
    /\ last.op = "preview" => last.previews < MaxPreviews
    /\ \E p \in {drawPreview(bag, rng)} :
          /\ bag' = p.bag
          /\ rng' = p.rng
          /\ last' = [op |-> "preview", ret |-> p.preview,
                      previews |-> IF last.op = "preview" THEN last.previews + 1 ELSE 1,
                      stream |-> last.stream]
    /\ UNCHANGED <<board, cur, score, lines, level, gameOver, paused, mode, aiTimer>>
    /\ UNCHANGED <<frameVars, drawn, draws, app>>

NextPreview == NextFromBag \/ Preview

SpecPreview == InitPreview /\ [][NextPreview]_vars

-----------------------------------------------------------------------------
(* Properties *)

\* the mask Game::pieceCell gives for a type and a rotation
MaskOf(type, rotation) ==
    [i \in Ix4 |-> [j \in Ix4 |-> pieceCell(type, rotation, i, j)]]

\* the board coordinates <<row, column>> of the occupied cells of a mask whose
\* 4x4 window has its top-left corner at (topR, leftC)
Occupied(mask, topR, leftC) ==
    {<<topR + p[1], leftC + p[2]>> : p \in {q \in Ix4 \X Ix4 : mask[q[1]][q[2]] # 0}}

\* some cell of occ is outside the columns, at or below the floor, or on an
\* occupied cell of the visible grid
Hits(cells, occ) ==
    \E p \in occ : \/ p[2] \notin Cols
                   \/ p[1] >= BOARD_H
                   \/ (p[1] \in Rows /\ Cell(cells, p[1], p[2]) # 0)

\* the occupied cells of the last call's piece
LastOccupied ==
    CASE last.op \in {"collides", "placePiece"} ->
            Occupied(StateOf(last.type, last.rIdx), last.topR, last.leftC)
      [] last.op \in {"collidesPiece", "Game::collides"} ->
            Occupied(MaskOf(last.type, last.rotation), last.py, last.px)
      [] OTHER -> {}

\* C1: 7-bag fairness.  Within a block of 7 draws (draws 7k+1 .. 7k+7) no type
\* is drawn twice, a complete block holds each of the types 0..6 exactly once,
\* and a refill happens only on the first draw of a block.
BagFair ==
    /\ \A t \in Types : drawn[t] <= 1
    /\ Count(drawn) = BAG_SIZE => \A t \in Types : drawn[t] = 1
    /\ Count(drawn) = (IF draws = 0 THEN 0 ELSE ((draws - 1) % BAG_SIZE) + 1)
    /\ (last.op = "next" /\ last.refilled) => draws % BAG_SIZE = 1

\* the second block of 7 draws is complete
BagFairWitness == draws = 2 * BAG_SIZE /\ Count(drawn) = BAG_SIZE

\* C2: collision soundness.  Board::collides and Game::collidesPiece return
\* true exactly when some occupied mask cell maps to a column outside 0..9,
\* to a row >= 20, or to a non-empty cell of rows 0..19.
CollisionSound ==
    last.op \in {"collides", "collidesPiece"} =>
        (last.ret <=> Hits(board, LastOccupied))

\* a piece partly above the grid, inside the columns and above the floor, that
\* collides with the stack
CollisionWitness ==
    /\ last.op = "collides"
    /\ last.ret
    /\ \A p \in LastOccupied : p[2] \in Cols /\ p[1] < BOARD_H
    /\ \E p \in LastOccupied : p[1] < 0

NotFull(row) == \E k \in 1 .. BOARD_W : row[k] = 0

\* the board made of the rows of keep at the bottom, in order, under empty rows
Compacted(keep) ==
    [i \in 1 .. BOARD_H |-> IF i <= BOARD_H - Len(keep) THEN EmptyRow
                            ELSE keep[i - (BOARD_H - Len(keep))]]

\* C4: line-clear correctness.  clearLines returns the number of full rows of
\* the input board and leaves the input's non-full rows, in their order, at the
\* bottom under that many empty rows; with no full row the board is unchanged.
LineClearCorrect ==
    last.op = "clearLines" =>
        LET keep == SelectSeq(last.pre, NotFull)
        IN  /\ last.ret = BOARD_H - Len(keep)
            /\ board = Compacted(keep)
            /\ (last.ret = 0 => board = last.pre)

\* two rows cleared, one of them not the lowest full row's neighbour below a
\* partial row: rows that stay and rows that go are interleaved
LineClearWitness ==
    /\ last.op = "clearLines"
    /\ last.ret >= 2
    /\ \E r1, r2, r3 \in Rows :
          /\ r1 < r2 /\ r2 < r3
          /\ ~NotFull(last.pre[r1 + 1]) /\ ~NotFull(last.pre[r3 + 1])
          /\ NotFull(last.pre[r2 + 1]) /\ last.pre[r2 + 1] # EmptyRow

\* C5: placePiece sets exactly the cells of rows 0..19 and columns 0..9 that
\* occupied mask cells cover to colorId, drops the mask cells above row 0, and
\* leaves every other cell unchanged.
PlaceFrame ==
    last.op = "placePiece" =>
        \A r \in Rows : \A c \in Cols :
            Cell(board, r, c) = IF <<r, c>> \in LastOccupied THEN last.colorId
                                ELSE Cell(last.pre, r, c)

\* a placement with cells above row 0 and cells written on row 0 and below
PlaceWitness ==
    /\ last.op = "placePiece"
    /\ \E p \in LastOccupied : p[1] < 0
    /\ \E p \in LastOccupied :
          p[1] \in Rows /\ p[2] \in Cols
          /\ Cell(last.pre, p[1], p[2]) # Cell(board, p[1], p[2])

\* C6: dropPosition returns the lowest straight-drop resting row: when it
\* returns a row t, the shape collides at no row from -4 to t, collides at
\* t + 1, and a second call returns t again.
DropLowest ==
    (last.op = "dropPosition" /\ last.ret # INT_MIN) =>
        LET shape == StateOf(last.type, last.rIdx)
        IN  /\ \A row \in -4 .. last.ret : ~collides(board, shape, row, last.leftC)
            /\ collides(board, shape, last.ret + 1, last.leftC)
            /\ dropPosition(board, shape, last.leftC) = last.ret

\* a piece that comes to rest on a stack, inside the grid
DropWitness ==
    /\ last.op = "dropPosition"
    /\ last.ret # INT_MIN
    /\ last.ret >= 0
    /\ \E p \in Occupied(StateOf(last.type, last.rIdx), last.ret + 1, last.leftC) :
          p[1] \in Rows /\ Cell(board, p[1], p[2]) # 0

\* the first row of a mask that holds an occupied cell
MinRow(mask) == CHOOSE i \in Ix4 :
    /\ \E j \in Ix4 : mask[i][j] # 0
    /\ \A k \in 0 .. (i - 1) : \A j \in Ix4 : mask[k][j] = 0

\* C7: dropPosition never returns a resting row at which part of the piece
\* lies above row 0; where the stack is too tall for that it reports INT_MIN.
DropInsideOrNone ==
    (last.op = "dropPosition" /\ last.ret # INT_MIN) =>
        last.ret + MinRow(StateOf(last.type, last.rIdx)) >= 0


\* the candidates findBestMove scores on a board: one for each rotation state
\* and offset -4..BOARD_W at which dropPosition returns a row
Candidates(cells, type) ==
    {Candidate(cells, type, p[1], p[2], dropPosition(cells, StateOf(type, p[1]), p[2])) :
        p \in {q \in (0 .. (NumStates(type) - 1)) \X LeftCols :
                  dropPosition(cells, StateOf(type, q[1]), q[2]) # INT_MIN}}

\* a comes before b in rotation-major, offset-ascending order
Earlier(a, b) ==
    \/ a.rotationIndex < b.rotationIndex
    \/ (a.rotationIndex = b.rotationIndex /\ a.leftC < b.leftC)

\* C8: findBestMove returns a candidate whose heuristic score is maximal over
\* all (rotation, offset) pairs with a valid drop position, and the first such
\* candidate in rotation-major, offset-ascending order.
BestMoveMaximal ==
    last.op = "findBestMove" =>
        \A C \in {Candidates(board, last.type)} :
            C # {} =>
                /\ last.ret \in C
                /\ \A c \in C : ~ScoreGT(c.score, last.ret.score)
                /\ \A c \in C : c.score = last.ret.score => ~Earlier(c, last.ret)

\* the maximal score is reached by a second candidate, later in the order
BestMoveWitness ==
    /\ last.op = "findBestMove"
    /\ \E c \in Candidates(board, last.type) :
          c.score = last.ret.score /\ Earlier(last.ret, c)

\* the (rotation, column) pairs at which the piece rests with every cell at
\* row 0 or below
InsideFits(cells, type) ==
    {p \in (0 .. (NumStates(type) - 1)) \X LeftCols :
        \E top \in {dropPosition(cells, StateOf(type, p[1]), p[2])} :
            top # INT_MIN /\ top + MinRow(StateOf(type, p[1])) >= 0}

\* C9: placement exhaustiveness.  When exactly one (rotation, column) pair
\* lets the piece rest entirely inside the visible grid, findBestMove returns
\* that pair; when no pair does, it reports no legal placement (the sentinel
\* score).
PlacementExhaustive ==
    last.op = "findBestMove" =>
        \A F \in {InsideFits(board, last.type)} :
            /\ Cardinality(F) = 1 =>
                  <<last.ret.rotationIndex, last.ret.leftC>> \in F
            /\ F = {} => last.ret.score.u = SENTINEL_UNITS

LastLocks == IF last.op = "frame" THEN last.log.locks ELSE <<>>

\* C11: spawn.  After a lock, spawnPiece has drawn the next type from the bag
\* (the back of the bag, which it pops), the new piece has rotation 0, column
\* BOARD_W/2 - 2 = 3 and row 0, and gameOver is set exactly when the piece at
\* that position collides with the board; otherwise gameOver is as it was.
SpawnContract ==
    /\ Len(LastLocks) <= 1
    /\ \A k \in DOMAIN LastLocks : \A e \in {LastLocks[k]} :
          /\ last.pre.bag # <<>> =>
                /\ e.spawn.type = last.pre.bag[Len(last.pre.bag)]
                /\ bag = SubSeq(last.pre.bag, 1, Len(last.pre.bag) - 1)
          /\ cur = e.spawn
          /\ e.spawn.rotation = 0 /\ e.spawn.y = 0
          /\ e.spawn.x = (BOARD_W \div 2) - 2 /\ e.spawn.x = 3
          /\ board = e.post
          /\ \A hit \in {Hits(e.post, Occupied(MaskOf(e.spawn.type, 0), 0, 3))} :
                /\ hit => gameOver
                /\ ~hit => (gameOver = e.wasOver)

\* a lock after which the new piece collides at the spawn position, and the
\* game is over
SpawnWitness ==
    /\ Len(LastLocks) = 1
    /\ ~LastLocks[1].wasOver
    /\ gameOver
    /\ board # EmptyBoard

\* the last step was an AI tick that placed a piece
AIPlaced == last.op \in {"updateAI", "aiTick"} /\ last.did = "placed"

\* the cells of the spawn window of the piece now current: rotation 0, row 0,
\* column BOARD_W/2 - 2; the merged program spawns the classic mask, the
\* AI-only program tests the catalog's state 0
SpawnCells ==
    Occupied(IF mode = "AIONLY" THEN StateOf(cur.type, 0) ELSE MaskOf(cur.type, 0),
             0, (BOARD_W \div 2) - 2)

\* C12: in AI mode, if after a placement the spawn window of the next piece
\* (rotation 0, column BOARD_W/2 - 2, row 0) overlaps occupied board cells,
\* the game is over on that tick, in the AI-only program as in the merged one.
SpawnOverlapEndsGame ==
    (AIPlaced /\ Hits(board, SpawnCells)) => gameOver

\* C13: game over is terminal.  Once gameOver is set, no tick (a manual frame
\* with any keys, an AI tick of the merged program or of the AI-only program)
\* changes the board, the active piece, score, lines or level, and gameOver
\* stays set.
GameOverTerminal ==
    [][gameOver => (gameOver' /\ UNCHANGED <<board, cur, score, lines, level>>)]_vars

\* a manual frame with SPACE held, taken by a game that was over already
GameOverWitness ==
    /\ last.op = "frame"
    /\ last.pre.gameOver
    /\ "SPACE" \in last.keys
    /\ gameOver

\* the rotation events of the last manual frame
LastRots == IF last.op = "frame" THEN last.log.rots ELSE <<>>

\* the piece p, moved dx columns and turned to rotation r, overlaps nothing
Fits(cells, p, dx, r) ==
    ~Hits(cells, Occupied(MaskOf(p.type, r), p.y, p.x + dx))

\* C14: minimal wall kick.  A rotation key press with target rotation r'
\* ((r+1)%4 for UP, (r+3)%4 for Z) on a piece at column x makes it (x, r') if
\* that does not collide, else (x-1, r') if that does not collide, else
\* (x+1, r') if that does not collide, else leaves column and rotation as
\* they were; the row, the type and the board are not changed.
WallKickMinimal ==
    /\ (LastRots # <<>> /\ LastLocks = <<>>) => board = last.pre.board
    /\ \A k \in DOMAIN LastRots : \A e \in {LastRots[k]} :
          /\ e.newRot = (e.from.rotation + (IF "UP" \in last.keys THEN 1 ELSE 3)) % 4
          /\ e.to.y = e.from.y /\ e.to.type = e.from.type
          /\ LastLocks = <<>> => (cur.x = e.to.x /\ cur.rotation = e.to.rotation)
          /\ \A b \in {last.pre.board} :
                e.to = IF Fits(b, e.from, 0, e.newRot)
                          THEN [e.from EXCEPT !.rotation = e.newRot]
                       ELSE IF Fits(b, e.from, -1, e.newRot)
                          THEN [e.from EXCEPT !.rotation = e.newRot, !.x = e.from.x - 1]
                       ELSE IF Fits(b, e.from, 1, e.newRot)
                          THEN [e.from EXCEPT !.rotation = e.newRot, !.x = e.from.x + 1]
                       ELSE e.from

\* a rotation that is blocked in place by the stack and free one column left
\* and one column right, and is made one column left
WallKickWitness ==
    /\ Len(LastRots) = 1
    /\ LastRots[1].to.x = LastRots[1].from.x - 1
    /\ Fits(board, LastRots[1].from, 1, LastRots[1].newRot)
    /\ cur = LastRots[1].to

\* the hard drops of the last manual frame
LastDrops == IF last.op = "frame" THEN last.log.drops ELSE <<>>

\* the row Board::dropPosition gives for a piece's shape and column
DropRowOf(cells, p) == dropPosition(cells, MaskOf(p.type, p.rotation), p.x)

\* at no row from -4 to its own does the piece overlap anything
ClearAbove(cells, p) ==
    \A r \in -4 .. p.y : Fits(cells, [p EXCEPT !.y = r], 0, p.rotation)

\* C15 as stated: in every reachable manual-mode state, the row at which
\* hardDrop locks the piece equals dropPosition(current shape, current column)
\* computed on the same board.
HardDropIsDropPosition ==
    \A k \in DOMAIN LastDrops :
        LastLocks[k].piece.y = DropRowOf(LastLocks[k].pre, LastDrops[k].from)

\* C15, amended: hardDrop locks the piece, column and rotation unchanged, at
\* the first row at or below its current row at which it would collide one
\* row lower; this row equals dropPosition(current shape, current column) on
\* the same board in every reachable manual-mode state in which the piece
\* overlaps nothing at any row from -4 to its current row.
HardDropFromCurrentRow ==
    \A k \in DOMAIN LastDrops :
    \A d \in {LastDrops[k]} : \A e \in {LastLocks[k]} :
        /\ e.piece = d.to
        /\ d.to = [d.from EXCEPT !.y = d.to.y]
        /\ d.to.y >= d.from.y
        /\ \A r \in d.from.y .. (d.to.y - 1) :
              Fits(e.pre, [d.from EXCEPT !.y = r + 1], 0, d.from.rotation)
        /\ ~Fits(e.pre, [d.from EXCEPT !.y = d.to.y + 1], 0, d.from.rotation)
        /\ ClearAbove(e.pre, d.from) => d.to.y = DropRowOf(e.pre, d.from)

\* a hard drop of a piece that has moved below its spawn row with nothing
\* above it in its way, locked on the stack at the row dropPosition gives
HardDropWitness ==
    /\ Len(LastDrops) = 1
    /\ LastDrops[1].from.y > 0
    /\ LastDrops[1].to.y > LastDrops[1].from.y
    /\ LastDrops[1].to.y < BOARD_H - 3
    /\ ClearAbove(LastLocks[1].pre, LastDrops[1].from)
    /\ LastDrops[1].to.y = DropRowOf(LastLocks[1].pre, LastDrops[1].from)

\* the number of full rows of a board
FullRows(cells) == Cardinality({r \in Rows : \A c \in Cols : Cell(cells, r, c) # 0})

\* the points of the manual game for k rows cleared at once
PointsFor(k) ==
    CASE k = 0 -> 0 [] k = 1 -> 40 [] k = 2 -> 100 [] k = 3 -> 300 [] k = 4 -> 1200

\* C16: manual-mode lock scoring.  A lock that fills k rows (0 <= k <= 4)
\* adds k to lines and PointsFor(k) times the level before the lock to score;
\* with k = 0 score, lines and level are as before.
ManualScoring ==
    \A n \in DOMAIN LastLocks : \A e \in {LastLocks[n]} : \A k \in {FullRows(e.locked)} :
        /\ k \in 0 .. 4
        /\ lines = e.lines + k
        /\ score = e.score + PointsFor(k) * e.level
        /\ k = 0 => level = e.level
        /\ e.score = last.pre.score /\ e.lines = last.pre.lines
        /\ e.level = last.pre.level

\* a lock at level 2 that fills four rows
ManualScoringWitness ==
    /\ Len(LastLocks) = 1
    /\ FullRows(LastLocks[1].locked) = 4
    /\ LastLocks[1].level = 2
    /\ score = LastLocks[1].score + 2400

\* C17: in every reachable state of a game that tracks a level (a manual game,
\* and an AI game of the merged program), level = 1 + floor(lines / 10).
LevelFromLines ==
    mode \in {"MANUAL", "AI"} => level = 1 + lines \div 10

\* a manual lock that takes the game from level 1 to level 2
LevelWitness ==
    /\ mode = "MANUAL"
    /\ Len(LastLocks) = 1
    /\ LastLocks[1].level = 1
    /\ lines >= 10
    /\ level = 2

\* the number of rows of a board that are full once the cells occ are added
FullRowsWith(cells, occ) ==
    Cardinality({r \in Rows : \A c \in Cols : Cell(cells, r, c) # 0 \/ <<r, c>> \in occ})

\* C18: AI-mode scoring.  An AI placement that clears k >= 1 rows adds
\* 100 * 2^(k-1) to score, whatever the level, and k to lines; a placement
\* that clears no row leaves score and lines as they were.
AIScoring ==
    AIPlaced =>
        \A k \in {FullRowsWith(last.pre,
                               Occupied(StateOf(last.type, last.move.rotationIndex),
                                        last.top, last.move.leftC))} :
            /\ k \in 0 .. 4
            /\ lines = last.preLines + k
            /\ score = last.preScore
                       + (CASE k = 0 -> 0 [] k = 1 -> 100 [] k = 2 -> 200
                            [] k = 3 -> 400 [] k = 4 -> 800)

\* an AI placement of the merged program at level 2 that clears three rows
AIScoringWitness ==
    /\ mode = "AI"
    /\ AIPlaced
    /\ last.preLevel = 2
    /\ last.cleared = 3
    /\ score = last.preScore + 400

\* the last frame locked a horizontal I piece (rotation 0) whose leftmost cell
\* is at column 0, on the board cells
IDroppedAtColumn0(cells) ==
    /\ Len(LastLocks) = 1
    /\ LastLocks[1].pre = cells
    /\ LastLocks[1].piece.type = 0
    /\ LastLocks[1].piece.rotation = 0
    /\ LastLocks[1].piece.x = 0

\* the lock of the last frame cleared one line and scored 40 * level
OneLineScored ==
    /\ lines = last.pre.lines + 1
    /\ score = last.pre.score + 40 * last.pre.level

\* C19 as stated: on a board whose bottom row is filled in every column except
\* column 0, dropping a horizontal I piece (rotation 0) with its leftmost cell
\* at column 0 clears a line: lines increases by 1 and score by 40 * level.
LineClearScenarioAsStated ==
    IDroppedAtColumn0(WellBoard(1, 0)) => OneLineScored

\* C19, amended: on a board whose bottom row is filled in every column except
\* columns 0..3, dropping a horizontal I piece (rotation 0) with its leftmost
\* cell at column 0 clears a line: lines increases by 1, score by 40 * level,
\* and the board is left empty.  On the board whose bottom row is filled in
\* every column except column 0 the piece rests on row 18 and nothing is
\* cleared or scored.
LineClearScenario ==
    /\ IDroppedAtColumn0(GapBoard) => (OneLineScored /\ board = EmptyBoard)
    /\ IDroppedAtColumn0(WellBoard(1, 0)) =>
          /\ LastLocks[1].piece.y = BOARD_H - 3
          /\ lines = last.pre.lines /\ score = last.pre.score
          /\ board = LastLocks[1].locked

\* the I piece hard-dropped at level 2 into the gap of columns 0..3
LineClearScenarioWitness ==
    /\ IDroppedAtColumn0(GapBoard)
    /\ Len(LastDrops) = 1
    /\ last.pre.level = 2
    /\ score = last.pre.score + 80

\* the cells the hard-dropped O piece comes to rest on
OCells == {<<BOARD_H - 2, 4>>, <<BOARD_H - 2, 5>>, <<BOARD_H - 1, 4>>, <<BOARD_H - 1, 5>>}

\* the last frame was SPACE alone for an O piece at the spawn position of a
\* running game
ODroppedFromSpawn ==
    /\ last.op = "frame"
    /\ last.keys = {"SPACE"}
    /\ ~last.pre.gameOver /\ ~last.pre.paused
    /\ last.pre.cur = [type |-> 1, x |-> 3, y |-> 0, rotation |-> 0]

\* C20: end-to-end hard drop.  On an empty board, an O piece at the default
\* spawn position that is hard-dropped with no other input is locked in rows
\* 18-19, columns 4-5; score and lines stay unchanged and every other board
\* cell stays empty.
HardDropScenario ==
    (ODroppedFromSpawn /\ last.pre.board = EmptyBoard) =>
        /\ Len(LastLocks) = 1
        /\ \A r \in Rows : \A c \in Cols :
              (Cell(board, r, c) # 0) <=> (<<r, c>> \in OCells)
        /\ OCells = {<<18, 4>>, <<18, 5>>, <<19, 4>>, <<19, 5>>}
        /\ score = last.pre.score
        /\ lines = last.pre.lines

\* the O piece hard-dropped from spawn on the empty board, now on the board
HardDropScenarioWitness ==
    /\ ODroppedFromSpawn
    /\ last.pre.board = EmptyBoard
    /\ board # EmptyBoard
    /\ ticks = 1

\* C21: pause in manual mode.  A tick of a manual game whose pause flag is set
\* when updateManual runs changes neither the board, the active piece, score,
\* lines, level, nor the gravity and input-repeat timers, whatever keys are
\* held or pressed; the flag itself changes exactly when P is pressed.
PauseFreezesManual ==
    [][mode = "MANUAL" =>
          /\ paused' = (IF "P" \in last'.keys THEN ~paused ELSE paused)
          /\ paused' =>
                /\ UNCHANGED <<board, cur, score, lines, level, bag>>
                /\ manual'.gravityTimer = manual.gravityTimer
                /\ manual'.inputTimer = manual.inputTimer]_vars

\* a frame long enough for gravity, with SPACE pressed, of a game that was
\* paused before it and stays paused
PauseWitness ==
    /\ last.op = "frame"
    /\ last.pre.paused
    /\ paused
    /\ ~gameOver
    /\ "SPACE" \in last.keys
    /\ last.dt >= manual.gravityDelay

AINeverPaused == mode = "AI" => ~paused

\* the moves and the gravity steps of the last manual frame
LastMoves == IF last.op = "frame" THEN last.log.moves ELSE <<>>

LastFalls == IF last.op = "frame" THEN last.log.falls ELSE <<>>

\* the piece a move attempt leaves
MoveResult(e) ==
    IF e.blocked THEN e.from
    ELSE CASE e.key = "LEFT" -> [e.from EXCEPT !.x = e.from.x - 1]
           [] e.key = "RIGHT" -> [e.from EXCEPT !.x = e.from.x + 1]
           [] e.key = "DOWN" -> [e.from EXCEPT !.y = e.from.y + 1]

\* the piece the moves of the last frame leave, and the piece its moves and
\* rotations leave
AfterMoves ==
    IF LastMoves = <<>> THEN last.pre.cur ELSE MoveResult(LastMoves[Len(LastMoves)])

AfterInput ==
    IF LastRots = <<>> THEN AfterMoves ELSE LastRots[Len(LastRots)].to

\* the rank of a movement key in the order updateManual reads them
KeyRank(k) == CASE k = "LEFT" -> 1 [] k = "RIGHT" -> 2 [] k = "DOWN" -> 3

\* C23: ordering within a manual tick.  Horizontal moves, soft drop, rotation
\* and hard drop are applied in this order, each to the piece the one before
\* left, and before the gravity check, which is evaluated against the piece
\* they produce; a tick in which a hard drop locks a piece applies no gravity
\* step and no second lock to the newly spawned piece.
TickOrder ==
    last.op = "frame" =>
        /\ \A k \in DOMAIN LastMoves :
              /\ LastMoves[k].from = (IF k = 1 THEN last.pre.cur
                                      ELSE MoveResult(LastMoves[k - 1]))
              /\ k > 1 => KeyRank(LastMoves[k - 1].key) < KeyRank(LastMoves[k].key)
        /\ \A k \in DOMAIN LastRots :
              LastRots[k].from = (IF k = 1 THEN AfterMoves ELSE LastRots[k - 1].to)
        /\ \A k \in DOMAIN LastDrops : k = 1 /\ LastDrops[k].from = AfterInput
        /\ LastDrops # <<>> =>
              /\ LastFalls = <<>>
              /\ Len(LastLocks) = 1
              /\ cur = LastLocks[1].spawn
              /\ manual.gravityTimer = 0
        /\ \A k \in DOMAIN LastFalls :
              /\ k = 1
              /\ LastFalls[k].from = AfterInput
              /\ cur = (IF LastFalls[k].blocked THEN LastLocks[1].spawn
                        ELSE [AfterInput EXCEPT !.y = AfterInput.y + 1])
        /\ (LastFalls # <<>>) <=>
              (/\ ~last.pre.gameOver /\ ~paused /\ LastDrops = <<>>
               /\ last.pre.manual.gravityTimer + last.dt >= manual.gravityDelay)

\* a frame long enough for gravity in which SPACE locks the piece: the new
\* piece is at its spawn row
TickOrderWitness ==
    /\ Len(LastDrops) = 1
    /\ last.dt >= manual.gravityDelay
    /\ ~gameOver
    /\ cur.y = 0

\* the last frame was one of a running manual game
RunningFrame == last.op = "frame" /\ ~last.pre.gameOver /\ ~paused

\* the movement keys whose move the last frame attempted
Tried == {LastMoves[k].key : k \in DOMAIN LastMoves}

\* C24: input repeat.  A movement key (LEFT, RIGHT or DOWN) that is down in a
\* tick has its move attempted in that tick exactly when this is the first
\* tick it is held or at least the repeat delay of 0.08 s has elapsed since
\* its previous attempt; a key that is not down is not attempted.  This holds
\* for each key also when another movement key is held at the same time.
InputRepeat ==
    RunningFrame =>
        \A k \in MoveKeys :
            (k \in Tried) <=>
                (k \in last.keys /\ (last.was[k] < 0 \/ last.was[k] + last.dt >= INPUT_DELAY))

\* C24 for a key held alone
InputRepeatAlone ==
    (RunningFrame /\ Cardinality(last.keys \cap MoveKeys) <= 1
                  /\ Cardinality({k \in MoveKeys : last.was[k] >= 0}) <= 1) => InputRepeat

\* the position a movement key asks for
Target(p, key) ==
    CASE key = "LEFT" -> [p EXCEPT !.x = p.x - 1]
      [] key = "RIGHT" -> [p EXCEPT !.x = p.x + 1]
      [] key = "DOWN" -> [p EXCEPT !.y = p.y + 1]

\* the piece p collides on the board
PieceHits(cells, p) == Hits(cells, Occupied(MaskOf(p.type, p.rotation), p.y, p.x))

\* the last frame neither rotated nor hard-dropped, and gravity was not due
OnlyMoves ==
    /\ last.keys \cap {"UP", "Z", "SPACE"} = {}
    /\ last.pre.manual.gravityTimer + last.dt < manual.gravityDelay

\* C25: illegal moves are rejected without effect.  A LEFT, RIGHT or DOWN
\* attempt whose target position collides leaves the piece's column, row and
\* rotation, the board, score and lines unchanged; a blocked soft drop never
\* locks the piece.
IllegalMoveRejected ==
    RunningFrame =>
        /\ (/\ OnlyMoves
            /\ \A k \in Tried : PieceHits(last.pre.board, Target(last.pre.cur, k)))
              => /\ cur = last.pre.cur
                 /\ board = last.pre.board
                 /\ score = last.pre.score
                 /\ lines = last.pre.lines
        /\ \A i \in DOMAIN LastMoves :
              (/\ LastMoves[i].key = "DOWN"
               /\ PieceHits(last.pre.board, Target(LastMoves[i].from, "DOWN"))
               /\ "SPACE" \notin last.keys
               /\ last.pre.manual.gravityTimer + last.dt < manual.gravityDelay)
                 => /\ LastLocks = <<>>
                    /\ board = last.pre.board
                    /\ cur.type = last.pre.cur.type
                    /\ cur.y = LastMoves[i].from.y
                    /\ score = last.pre.score
                    /\ lines = last.pre.lines

\* a soft drop attempted in a frame whose attempts are all blocked, the soft
\* drop by a cell of the stack
IllegalMoveWitness ==
    /\ RunningFrame
    /\ OnlyMoves
    /\ "DOWN" \in Tried
    /\ \A k \in Tried : PieceHits(last.pre.board, Target(last.pre.cur, k))
    /\ \E p \in Occupied(MaskOf(cur.type, cur.rotation), cur.y + 1, cur.x) :
          p[1] \in Rows /\ p[2] \in Cols /\ Cell(board, p[1], p[2]) # 0

\* C26: the preview is a pure peek.  Computing the next-5 preview leaves the
\* live bag and the live generator state unchanged, and every later draw of
\* nextFromBag returns the type that was due when the game was constructed,
\* whether or not and however often the preview was computed in between.
PreviewPure ==
    [][/\ last'.op = "preview" => (bag' = bag /\ rng' = rng)
       /\ (last'.op = "next" /\ last.op \in {"next", "preview"} /\ "stream" \in DOMAIN last)
             => last'.ret = Head(last.stream)]_vars

\* a draw that refills the bag, made after two previews that looked past the
\* end of the live bag
PreviewWitness ==
    /\ last.op = "next"
    /\ "previews" \in DOMAIN last
    /\ last.refilled
    /\ last.previews = 2
    /\ draws > 1

\* C27: the randomizer never repeats a type immediately.  No two consecutive
\* draws from the bag return the same type id, the last draw of one bag and
\* the first draw of the next included.
NoImmediateRepeat ==
    [][(last.op = "next" /\ last'.op = "next") => last'.ret # last.ret]_vars

\* C27 inside one bag: two consecutive draws without a refill between them
\* differ
NoRepeatInsideBag ==
    [][(last.op = "next" /\ last'.op = "next" /\ ~last'.refilled)
          => last'.ret # last.ret]_vars

\* C28: the two rotation designs agree.  For every 4x4 base mask and every
\* rotation index 0..3 the mask read through pieceCell's index transform is
\* rotate90 applied that many times to the base mask, and four quarter-turns
\* give back the base mask.
RotationsAgree ==
    last.op = "rotated" =>
        /\ last.read = last.turned
        /\ last.rotation = 4 => last.turned = AsMatrix(last.flat)

\* a base mask that no quarter-turn maps to itself, read at rotation 3
RotationsWitness ==
    /\ last.op = "rotated"
    /\ last.rotation = 3
    /\ \A k \in 1 .. 3 : turned(AsMatrix(last.flat), k) # AsMatrix(last.flat)
    /\ Cardinality({k \in 1 .. 16 : last.flat[k] = 1}) = 4

\* the occupied rows of a column, and the height the definition gives it
BlocksOf(cells, c) == {r \in Rows : Cell(cells, r, c) # 0}

HeightOf(cells, c) ==
    IF BlocksOf(cells, c) = {} THEN 0
    ELSE BOARD_H - (CHOOSE r \in BlocksOf(cells, c) : \A q \in BlocksOf(cells, c) : r <= q)

\* the sum of f over the columns 0 .. c
RECURSIVE SumCols(_, _)
SumCols(f, c) == IF c < 0 THEN 0 ELSE f[c] + SumCols(f, c - 1)

\* the empty cells with an occupied cell above them in their column
HoleCells(cells) ==
    {p \in Rows \X Cols :
        /\ Cell(cells, p[1], p[2]) = 0
        /\ \E q \in BlocksOf(cells, p[2]) : q < p[1]}

\* C29: feature extraction matches its definitions.  columnHeight(c) is 20
\* minus the row of the topmost occupied cell of column c, 0 for an empty
\* column; aggregateHeight is the sum of the column heights; bumpiness is the
\* sum of the absolute differences of adjacent column heights; holes counts
\* the empty cells that have an occupied cell above them in their column.
FeaturesMatch ==
    last.op = "features" =>
        LET h == [c \in Cols |-> HeightOf(board, c)]
            d == [c \in 0 .. (BOARD_W - 2) |->
                     IF h[c] >= h[c + 1] THEN h[c] - h[c + 1] ELSE h[c + 1] - h[c]]
        IN  /\ last.columnHeight = h
            /\ last.aggregateHeight = SumCols(h, BOARD_W - 1)
            /\ last.bumpiness = SumCols(d, BOARD_W - 2)
            /\ last.holes = Cardinality(HoleCells(board))

\* a board with a column holding two holes under one block, one of them not
\* directly under it, next to a lower column
FeaturesWitness ==
    /\ last.op = "features"
    /\ last.holes >= 2
    /\ last.bumpiness > 0
    /\ \E c \in Cols : \E r \in 2 .. (BOARD_H - 1) :
          /\ Cell(board, r, c) = 0
          /\ Cell(board, r - 1, c) = 0
          /\ Cell(board, r - 2, c) # 0

\* C30: in manual mode the active piece of a game that is not over does not
\* collide.  Every cell of the piece at (x, y, rotation) lies in columns 0..9,
\* in a row of the grid not below row 19, and on an empty board cell; every
\* move, rotation, gravity step, lock and spawn preserves this.
ActiveFits ==
    (mode = "MANUAL" /\ ~gameOver) =>
        \A p \in Occupied(MaskOf(cur.type, cur.rotation), cur.y, cur.x) :
            /\ p[2] \in Cols
            /\ p[1] \in Rows
            /\ Cell(board, p[1], p[2]) = 0

\* a frame that locked a piece and spawned the next one, the game not over,
\* with the stack reaching row 3, just under the rows of the spawned piece
ActiveFitsWitness ==
    /\ mode = "MANUAL"
    /\ ~gameOver
    /\ Len(LastLocks) = 1
    /\ cur.y = 0
    /\ \E c \in Cols : Cell(board, 3, c) # 0

\* C31: in every state between two ticks, after a manual lock or an AI
\* placement has completed with its line clear, no row of the board is
\* completely filled.
NoFullRow ==
    mode \in {"MANUAL", "AI", "AIONLY"} =>
        \A r \in Rows : \E c \in Cols : Cell(board, r, c) = 0

\* a manual frame whose lock completed a row, with other cells left on the board
NoFullRowWitness ==
    /\ Len(LastLocks) = 1
    /\ FullRows(LastLocks[1].locked) >= 1
    /\ FullRows(board) = 0
    /\ board # EmptyBoard

\* C32: every line clear triggered by a lock removes between 0 and 4 rows, so
\* the index cleared into the 5-entry table pointsPer is within 0..4: the
\* board holds at most 4 full rows when the piece's cells are written, and
\* the count the clear adds to lines is within the table.
ClearedInTable ==
    last.op = "frame" =>
        /\ Len(LastLocks) <= 1
        /\ \A i \in DOMAIN LastLocks :
              /\ FullRows(LastLocks[i].locked) \in 0 .. 4
              /\ lines - LastLocks[i].lines \in 0 .. (Len(pointsPer) - 1)
              /\ lines - LastLocks[i].lines = FullRows(LastLocks[i].locked)

\* a lock that clears four rows at once
ClearedWitness ==
    /\ Len(LastLocks) = 1
    /\ FullRows(LastLocks[1].locked) = 4
    /\ lines = LastLocks[1].lines + 4

\* C33: in manual mode the active piece's row is never negative and no lock
\* truncates the piece: each lock writes exactly four previously empty cells,
\* so the number of non-empty cells is 4 * (pieces locked) - 10 * lines.  The
\* games are followed from states picked up under way, so the count is
\* stated as it evolves: cells + 10 * lines is a multiple of 4 where the game
\* is picked up (it is 0 in a new game) and after every lock, a frame without
\* a lock leaves the board and the lines as they were, and a frame with locks
\* makes cells + 10 * lines grow by 4 for each piece locked.
CellsCountLocks ==
    mode = "MANUAL" =>
        /\ cur.y >= 0
        /\ (last.op # "frame" \/ LastLocks # <<>>) => (CellCount(board) + 10 * lines) % 4 = 0
        /\ (last.op = "frame" /\ LastLocks = <<>>) =>
              board = last.pre.board /\ lines = last.pre.lines
        /\ (last.op = "frame" /\ LastLocks # <<>>) =>
              /\ \A i \in DOMAIN LastLocks :
                    \E occ \in {Occupied(MaskOf(LastLocks[i].piece.type,
                                                LastLocks[i].piece.rotation),
                                         LastLocks[i].piece.y, LastLocks[i].piece.x)} :
                       /\ LastLocks[i].piece.y >= 0
                       /\ Cardinality(occ) = 4
                       /\ \A p \in occ :
                             /\ p[1] \in Rows /\ p[2] \in Cols
                             /\ Cell(LastLocks[i].pre, p[1], p[2]) = 0
                             /\ Cell(LastLocks[i].locked, p[1], p[2]) # 0
                       /\ CellCount(LastLocks[i].locked) = CellCount(LastLocks[i].pre) + 4
              /\ CellCount(board) + 10 * lines
                    = CellCount(last.pre.board) + 10 * last.pre.lines + 4 * Len(LastLocks)

\* a lock that clears one row and leaves six cells fewer, the game not over
CellsCountWitness ==
    /\ mode = "MANUAL"
    /\ Len(LastLocks) = 1
    /\ lines = last.pre.lines + 1
    /\ CellCount(board) = CellCount(last.pre.board) - 6
    /\ ~gameOver

\* the cells of the shape the last AI tick placed, at its resting position
PlacedCells ==
    Occupied(StateOf(last.type, last.move.rotationIndex), last.top, last.move.leftC)

\* C34: in AI mode every placement the AI tick applies writes all four cells
\* of the chosen shape: the resting position has no occupied mask cell at a
\* negative row, so the number of non-empty cells grows by exactly 4 before
\* the line clear.
AIPlacesFour ==
    AIPlaced =>
        /\ \A p \in PlacedCells : p[1] >= 0
        /\ CellCount(board) = CellCount(last.pre) + 4 - BOARD_W * last.cleared

\* C34 for the placements that rest inside the grid
AIPlacesFourInside ==
    (AIPlaced /\ \A p \in PlacedCells : p[1] >= 0) =>
        CellCount(board) = CellCount(last.pre) + 4 - BOARD_W * last.cleared

\* move is a real candidate of findBestMove on a board: some (rotation, offset)
\* has a valid drop position, move is one of them, and its score is neither
\* the sentinel nor below the threshold of -1e8
RealCandidate(cells, type, move) ==
    /\ \E r \in 0 .. (NumStates(type) - 1) : \E left \in LeftCols :
          dropPosition(cells, StateOf(type, r), left) # INT_MIN
    /\ move.rotationIndex \in 0 .. (NumStates(type) - 1)
    /\ dropPosition(cells, StateOf(type, move.rotationIndex), move.leftC) # INT_MIN
    /\ move.score.u # SENTINEL_UNITS
    /\ ~BelowThreshold(move.score)

\* C35: for every board and every piece type findBestMove finds at least one
\* (rotation, offset) with a valid drop position and returns a real candidate,
\* whose score is above -1e8; hence an AI tick whose cooldown has elapsed
\* never takes the no-legal-placement branch (move.score < -1e8 or
\* top == INT_MIN) and never sets gameOver through it.
AlwaysAPlacement ==
    /\ last.op = "findBestMove" => RealCandidate(board, last.type, last.ret)
    /\ (last.op \in {"updateAI", "aiTick"} /\ last.did \notin {"return", "wait"}) =>
          /\ last.did = "placed"
          /\ RealCandidate(last.pre, last.type, last.move)
          /\ last.top # INT_MIN

\* an AI tick on a board on which the piece cannot rest inside the grid: it
\* still has a candidate and places it
AlwaysAPlacementWitness ==
    /\ AIPlaced
    /\ InsideFits(last.pre, last.type) = {}
    /\ \E c \in Cols : Cell(last.pre, 1, c) = 0

\* C36: in the merged program, for every type id t drawn from the bag, the
\* tetromino the AI engine searches and places (tetrominoes[t].states) is the
\* tetromino that spawnPiece collision-checks and that is shown as the active
\* piece (TETROMINO_CLASSIC[t]): states[0] of catalog entry t is classic base
\* mask t.
CatalogsAgree ==
    mode = "AI" =>
        /\ StateOf(cur.type, 0) = AsMatrix(TETROMINO_CLASSIC[cur.type + 1])
        /\ AIPlaced => StateOf(last.type, 0) = AsMatrix(TETROMINO_CLASSIC[last.type + 1])

\* C36 for the type ids on which the two catalogs agree: 0 (I) and 6 (Z)
CatalogsAgreeOnIZ ==
    \A t \in Types :
        (StateOf(t, 0) = AsMatrix(TETROMINO_CLASSIC[t + 1])) <=> t \in {0, BAG_SIZE - 1}

\* C37: whenever the PLAYING branch of the merged program's main calls
\* updateManual, updateAI or DrawGameScreen, the game pointer refers to a live
\* Game, also on the tick where ESC is pressed after game over.
GamePointerLive ==
    /\ last.op \in {"frame", "updateAI"} => app.game = "live"
    /\ last.op = "escape" => last.game = "live"

\* C37 for the frames of the PLAYING branch without ESC after game over
GamePointerLiveInPlay ==
    last.op \in {"frame", "updateAI"} => app.game = "live"

\* C38: in manual mode the active piece's row never decreases during its
\* lifetime, every gravity firing moves the piece down exactly one row or locks
\* it, and a spawned piece is locked after at most BOARD_H gravity firings.
PieceLocksInTime ==
    last.op = "frame" =>
       /\ last.fired <= BOARD_H
       /\ last.lockedAt <= BOARD_H
       /\ LastLocks = <<>> => cur.y >= last.pre.cur.y
       /\ \A i \in DOMAIN LastMoves : MoveResult(LastMoves[i]).y >= LastMoves[i].from.y
       /\ \A i \in DOMAIN last.log.rots : last.log.rots[i].to.y = last.log.rots[i].from.y
       /\ \A i \in DOMAIN LastLocks : LastLocks[i].piece.y >= last.pre.cur.y
       /\ Len(LastFalls) <= 1
       /\ \A i \in DOMAIN LastFalls :
             IF LastFalls[i].blocked
             THEN Len(LastLocks) = 1 /\ LastLocks[1].piece = LastFalls[i].from
             ELSE LastLocks = <<>>
                  /\ cur = [LastFalls[i].from EXCEPT !.y = LastFalls[i].from.y + 1]

\* a piece that gravity alone brought down the empty board is locked by the
\* firing after its last row
PieceLocksWitness ==
    /\ last.op = "frame"
    /\ Len(LastFalls) = 1
    /\ LastFalls[1].blocked
    /\ last.lockedAt >= BOARD_H - 1
    /\ last.lockedAt = LastLocks[1].piece.y + 1

\* the resting cell-sets the loops of findBestMove enumerate on a board for a
\* list of states: one for each state and offset -4..BOARD_W at which
\* dropPosition returns a row
RestingSets(cells, states) ==
    {Occupied(states[p[1]], dropPosition(cells, states[p[1]], p[2]), p[2]) :
        p \in {q \in (DOMAIN states) \X LeftCols :
                  dropPosition(cells, states[q[1]], q[2]) # INT_MIN}}

\* the catalog states of a type, and the four quarter turns of its base mask
CatalogStates(type) == tetrominoes[type + 1].states

QuarterTurns(type) == FourStates(StateOf(type, 0))

\* C39: restricting the catalog to one state for O and two for I, S and Z
\* loses no placement: on every board and for every type, the resting cell-sets
\* findBestMove enumerates over the catalog states are those of the four
\* quarter turns of the base mask over the same offsets.
NoPlacementLost ==
    last.op = "findBestMove" =>
        RestingSets(board, CatalogStates(last.type))
            = RestingSets(board, QuarterTurns(last.type))

\* findBestMove has searched, for a type with fewer than four states, a board
\* on which a quarter turn left out of the catalog rests partly above the grid
NoPlacementLostWitness ==
    /\ last.op = "findBestMove"
    /\ NumStates(last.type) < 4
    /\ \E k \in (NumStates(last.type) + 1) .. 4 : \E left \in LeftCols :
          /\ QuarterTurns(last.type)[k] \notin
                {CatalogStates(last.type)[n] : n \in DOMAIN CatalogStates(last.type)}
          /\ dropPosition(board, QuarterTurns(last.type)[k], left) # INT_MIN
          /\ \E p \in Occupied(QuarterTurns(last.type)[k],
                               dropPosition(board, QuarterTurns(last.type)[k], left), left) :
                p[1] < 0

\* C39 for every type on the board of any state
NoPlacementLostOnBoard ==
    \A type \in Types :
        RestingSets(board, CatalogStates(type)) = RestingSets(board, QuarterTurns(type))

=============================================================================
